---- MODULE Spec2Model ----
(***************************************************************************)
(* A model of the Nexus connector core (src/src/ApiServiceConnector.ts):   *)
(* protocol detection, the static connector connectorRegistry, the two capability   *)
(* operations and the three request strategies.  JavaScript runs handlers  *)
(* to completion: a synchronous method is one step, an async method is one *)
(* step up to its first await and one step for the continuation that runs  *)
(* when the awaited promise settles.                                       *)
(***************************************************************************)
EXTENDS Integers, Sequences, FiniteSets, Bags, TLC

VARIABLES
  connectorRegistry,  \* ApiServiceConnector.connectorRegistry: key -> connector
  connectors,  \* every connector object constructed so far
  headers,     \* axiosInstance.defaults.headers of each transport
  inflight,    \* bag of the request() calls suspended at their await
  lastCall,    \* what the most recent call returned, threw or settled with
  returned,    \* history: <<adapter, connector>> of every successful factory call
  lastToken    \* history: token of the latest applyAuthenticationToken per transport

vars == <<connectorRegistry, connectors, headers, inflight, lastCall, returned, lastToken>>

\* The program's own state, without the observation and history variables.
coreVars == <<connectorRegistry, connectors, headers, inflight>>

-----------------------------------------------------------------------------
(* Bounds *)

\* How many request() calls may be suspended at the same time.
MaxInFlight == 2

\* How many connectors a host may construct without the factory.
MaxConstructed == 2

-----------------------------------------------------------------------------
(* Values *)

EmptyObj == [k \in {} |-> ""]

\* Object.assign(target, source): source's keys win.
ObjectAssign(target, source) == source @@ target

ClientProtocol == {"REST", "GraphQL", "Generic"}

NoProtocol == "undefined"

\* The transports (axios instances) and GraphQL clients adapters can hold.
Transports == {"ax1", "ax2"}

GraphQLClients == {"apollo1", "apollo2"}

\* The adapter objects the host application passes in.  An adapter is known
\* by its index (its identity); hasCtor is FALSE for an object that has no
\* constructor property (Object.create(null)).
AdapterObjects == <<
  [hasCtor |-> TRUE,  ctorName |-> "Object",     props |-> [axiosInstance |-> "ax1"]],
  [hasCtor |-> TRUE,  ctorName |-> "Object",     props |-> [axiosInstance |-> "ax2"]],
  [hasCtor |-> TRUE,  ctorName |-> "RESTConfig", props |-> [axiosInstance |-> "ax2"]],
  [hasCtor |-> TRUE,  ctorName |-> "Object",     props |-> [apolloClient |-> "apollo1"]],
  [hasCtor |-> TRUE,  ctorName |-> "Object",     props |-> [client |-> "c1", executeRequest |-> "exec1"]],
  [hasCtor |-> TRUE,  ctorName |-> "Object",     props |-> [client |-> "c1"]],
  [hasCtor |-> TRUE,  ctorName |-> "Object",     props |-> [executeRequest |-> "exec1"]],
  [hasCtor |-> TRUE,  ctorName |-> "Object",     props |-> [invalidField |-> "test"]],
  [hasCtor |-> TRUE,  ctorName |-> "Object",     props |-> [axiosInstance |-> "ax1", apolloClient |-> "apollo1"]],
  [hasCtor |-> TRUE,  ctorName |-> "GraphQLConfig",
     props |-> [apolloClient |-> "apollo2", client |-> "c1", executeRequest |-> "exec1"]],
  [hasCtor |-> FALSE, ctorName |-> "",           props |-> [axiosInstance |-> "ax1"]],
  [hasCtor |-> TRUE,  ctorName |-> "Object",     props |-> [apolloClient |-> "apollo1", axiosInstance |-> "ax1"]]
>>

Adapters == DOMAIN AdapterObjects

\* 'field' in adapter
HasField(a, field) == field \in DOMAIN AdapterObjects[a].props

NoConnector == [adapterClient |-> 0, protocolType |-> NoProtocol, oid |-> 0]

Tokens == {"abc", "xyz"}

NoToken == "<no token applied>"

\* axiosInstance.defaults.headers when the host created each transport.
InitialHeaders == [t \in Transports |-> IF t = "ax1" THEN [A |-> "1"] ELSE EmptyObj]

-----------------------------------------------------------------------------
(* Protocol detection and the connectorRegistry key *)

\* A variant whose Generic detector accepts either field alone.
PROTOCOL_DETECTORS_Loose(protocol, a) ==
  CASE protocol = "REST"    -> HasField(a, "axiosInstance")
    [] protocol = "GraphQL" -> HasField(a, "apolloClient")
    [] protocol = "Generic" -> HasField(a, "client") \/ HasField(a, "executeRequest")

PROTOCOL_DETECTORS(protocol, a) ==
  CASE protocol = "REST"    -> HasField(a, "axiosInstance")
    [] protocol = "GraphQL" -> HasField(a, "apolloClient")
    [] protocol = "Generic" -> HasField(a, "client") /\ HasField(a, "executeRequest")

\* Object.entries(PROTOCOL_DETECTORS): the detectors in insertion order.
DetectorOrder == <<"REST", "GraphQL", "Generic">>

\* Object.keys(adapter): the fields of each adapter in the order the host
\* wrote them.  Adapters 9 and 12 have the same fields in opposite orders.
OwnKeys == <<
  <<"axiosInstance">>,
  <<"axiosInstance">>,
  <<"axiosInstance">>,
  <<"apolloClient">>,
  <<"client", "executeRequest">>,
  <<"client">>,
  <<"executeRequest">>,
  <<"invalidField">>,
  <<"axiosInstance", "apolloClient">>,
  <<"executeRequest", "client", "apolloClient">>,
  <<"axiosInstance">>,
  <<"apolloClient", "axiosInstance">>
>>

\* The protocol whose detector looks for a field.
FieldProtocol(field) ==
  CASE field = "axiosInstance" -> "REST"
    [] field = "apolloClient"  -> "GraphQL"
    [] field \in {"client", "executeRequest"} -> "Generic"
    [] OTHER -> NoProtocol

\* A variant that walks the adapter's fields instead of the detectors: the
\* first field whose detector accepts the adapter decides.
DetectProtocolByFieldOrder(a) ==
  LET hits == {i \in DOMAIN OwnKeys[a] :
                 /\ FieldProtocol(OwnKeys[a][i]) # NoProtocol
                 /\ PROTOCOL_DETECTORS(FieldProtocol(OwnKeys[a][i]), a)}
  IN IF hits = {} THEN NoProtocol
     ELSE FieldProtocol(OwnKeys[a][CHOOSE i \in hits : \A j \in hits : i <= j])

\* Object.entries(...).find(([_, detector]) => detector(adapter))?.[0]
DetectProtocol(a) ==
  LET hits == {i \in DOMAIN DetectorOrder : PROTOCOL_DETECTORS(DetectorOrder[i], a)}
  IN IF hits = {} THEN NoProtocol
     ELSE DetectorOrder[CHOOSE i \in hits : \A j \in hits : i <= j]

\* A variant that keys the registry by adapter instance.
RegistryKeyByInstance(a, protocol) ==
  AdapterObjects[a].ctorName \o ToString(a) \o ":" \o protocol

\* A variant that keys the registry by the type name alone.
RegistryKeyByTypeOnly(a, protocol) == AdapterObjects[a].ctorName

\* `${adapter.constructor.name}:${protocol}`
RegistryKey(a, protocol) == AdapterObjects[a].ctorName \o ":" \o protocol

\* new ApiServiceConnector(adapter, protocol): a fresh object.  oid tells
\* apart connectors constructed with the same arguments.
NewConnector(a, protocol) ==
  [adapterClient |-> a, protocolType |-> protocol,
   oid |-> Cardinality({c \in connectors :
                          c.adapterClient = a /\ c.protocolType = protocol})]

-----------------------------------------------------------------------------
(* Error messages of the source *)

UnrecognizedAdapterError ==
  "Tipo de adaptador não reconhecido. Nenhum detector de protocolo correspondente."

TokenOnlyRestError == "Autenticação via token disponível apenas para clientes REST"

NoGraphQLClientError == "Cliente GraphQL não disponível neste conector"

HttpFailurePrefix == "Falha na requisição HTTP: "

GraphQLFailurePrefix == "Falha na operação GraphQL: "

GenericFailurePrefix == "Falha na operação genérica: "

UnsupportedProtocolPrefix == "Protocolo não suportado: "

\* What the engine raises for adapter.constructor.name when the adapter has
\* no constructor.
TypeErrorNoConstructor == "TypeError: Cannot read properties of undefined (reading 'name')"

\* What the engine raises for error.isAxiosError when the thrown value is
\* undefined.
TypeErrorNullishError == "TypeError: Cannot read properties of undefined (reading 'isAxiosError')"

\* What the engine raises for error.message when the thrown value is undefined.
TypeErrorNullishMessage == "TypeError: Cannot read properties of undefined (reading 'message')"

\* No underlying call has settled.
NoOutcome == [kind |-> "none"]

NoCall ==
  [op |-> "none", adapter |-> 0, target |-> NoConnector, token |-> "",
   protocol |-> NoProtocol, outcome |-> "none", error |-> "",
   conn |-> NoConnector, client |-> "", cause |-> NoOutcome, response |-> EmptyObj]

-----------------------------------------------------------------------------
Init ==
  /\ connectorRegistry = [k \in {} |-> NoConnector]
  /\ connectors = {}
  /\ headers = InitialHeaders
  /\ inflight = EmptyBag
  /\ lastCall = NoCall
  /\ returned = {}
  /\ lastToken = [t \in Transports |-> NoToken]

-----------------------------------------------------------------------------
(* ApiServiceConnector.createOrRetrieve, which Nexus.instanciate forwards to *)

\* A variant without the has() test: it always constructs and stores.
createOrRetrieveAlwaysNew(a) ==
  LET protocol == DetectProtocol(a)
      call == [NoCall EXCEPT !.op = "createOrRetrieve", !.adapter = a,
                             !.protocol = protocol]
  IN IF protocol = NoProtocol
     THEN /\ lastCall' = [call EXCEPT !.outcome = "threw",
                                      !.error = UnrecognizedAdapterError]
          /\ UNCHANGED <<connectorRegistry, connectors, headers, inflight, returned, lastToken>>
     ELSE IF ~AdapterObjects[a].hasCtor
     THEN /\ lastCall' = [call EXCEPT !.outcome = "threw",
                                      !.error = TypeErrorNoConstructor]
          /\ UNCHANGED <<connectorRegistry, connectors, headers, inflight, returned, lastToken>>
     ELSE LET registryKey == RegistryKey(a, protocol)
              fresh == NewConnector(a, protocol)
          IN /\ connectorRegistry' = (registryKey :> fresh) @@ connectorRegistry
             /\ connectors' = connectors \cup {fresh}
             /\ lastCall' = [call EXCEPT !.outcome = "returned", !.conn = fresh]
             /\ returned' = returned \cup {<<a, fresh>>}
             /\ UNCHANGED <<headers, inflight, lastToken>>

\* A variant that, finding the key taken, returns the stored connector and
\* stores a connector on the adapter of the call in its place.
createOrRetrieveStoresLatest(a) ==
  LET protocol == DetectProtocol(a)
      call == [NoCall EXCEPT !.op = "createOrRetrieve", !.adapter = a,
                             !.protocol = protocol]
  IN IF protocol = NoProtocol
     THEN /\ lastCall' = [call EXCEPT !.outcome = "threw",
                                      !.error = UnrecognizedAdapterError]
          /\ UNCHANGED <<connectorRegistry, connectors, headers, inflight, returned, lastToken>>
     ELSE IF ~AdapterObjects[a].hasCtor
     THEN /\ lastCall' = [call EXCEPT !.outcome = "threw",
                                      !.error = TypeErrorNoConstructor]
          /\ UNCHANGED <<connectorRegistry, connectors, headers, inflight, returned, lastToken>>
     ELSE LET registryKey == RegistryKey(a, protocol)
              has == registryKey \in DOMAIN connectorRegistry
              fresh == NewConnector(a, protocol)
              result == IF has THEN connectorRegistry[registryKey] ELSE fresh
          IN /\ connectorRegistry' = (registryKey :> fresh) @@ connectorRegistry
             /\ connectors' = connectors \cup {fresh}
             /\ lastCall' = [call EXCEPT !.outcome = "returned", !.conn = result]
             /\ returned' = returned \cup {<<a, result>>}
             /\ UNCHANGED <<headers, inflight, lastToken>>

\* A variant that, finding the key taken, binds the stored connector to the
\* adapter of the call.
createOrRetrieveRebinds(a) ==
  LET protocol == DetectProtocol(a)
      call == [NoCall EXCEPT !.op = "createOrRetrieve", !.adapter = a,
                             !.protocol = protocol]
  IN IF protocol = NoProtocol
     THEN /\ lastCall' = [call EXCEPT !.outcome = "threw",
                                      !.error = UnrecognizedAdapterError]
          /\ UNCHANGED <<connectorRegistry, connectors, headers, inflight, returned, lastToken>>
     ELSE IF ~AdapterObjects[a].hasCtor
     THEN /\ lastCall' = [call EXCEPT !.outcome = "threw",
                                      !.error = TypeErrorNoConstructor]
          /\ UNCHANGED <<connectorRegistry, connectors, headers, inflight, returned, lastToken>>
     ELSE LET registryKey == RegistryKey(a, protocol)
              has == registryKey \in DOMAIN connectorRegistry
              fresh == NewConnector(a, protocol)
              result == IF has THEN [connectorRegistry[registryKey] EXCEPT !.adapterClient = a]
                        ELSE fresh
          IN /\ connectorRegistry' = (registryKey :> result) @@ connectorRegistry
             /\ connectors' = IF has
                              THEN (connectors \ {connectorRegistry[registryKey]}) \cup {result}
                              ELSE connectors \cup {fresh}
             /\ lastCall' = [call EXCEPT !.outcome = "returned", !.conn = result]
             /\ returned' = returned \cup {<<a, result>>}
             /\ UNCHANGED <<headers, inflight, lastToken>>

\* A variant without the throw on an unrecognised adapter: it goes on with
\* the undefined protocol.
createOrRetrieveNoThrow(a) ==
  LET protocol == DetectProtocol(a)
      call == [NoCall EXCEPT !.op = "createOrRetrieve", !.adapter = a,
                             !.protocol = protocol]
  IN IF ~AdapterObjects[a].hasCtor
     THEN /\ lastCall' = [call EXCEPT !.outcome = "threw",
                                      !.error = TypeErrorNoConstructor]
          /\ UNCHANGED <<connectorRegistry, connectors, headers, inflight, returned, lastToken>>
     ELSE LET registryKey == RegistryKey(a, protocol)
              has == registryKey \in DOMAIN connectorRegistry
              fresh == NewConnector(a, protocol)
              result == IF has THEN connectorRegistry[registryKey] ELSE fresh
          IN /\ connectorRegistry' = IF has THEN connectorRegistry ELSE (registryKey :> fresh) @@ connectorRegistry
             /\ connectors' = IF has THEN connectors ELSE connectors \cup {fresh}
             /\ lastCall' = [call EXCEPT !.outcome = "returned", !.conn = result]
             /\ returned' = returned \cup {<<a, result>>}
             /\ UNCHANGED <<headers, inflight, lastToken>>

createOrRetrieve(a) ==
  LET protocol == DetectProtocol(a)
      call == [NoCall EXCEPT !.op = "createOrRetrieve", !.adapter = a,
                             !.protocol = protocol]
  IN IF protocol = NoProtocol
     THEN /\ lastCall' = [call EXCEPT !.outcome = "threw",
                                      !.error = UnrecognizedAdapterError]
          /\ UNCHANGED <<connectorRegistry, connectors, headers, inflight, returned, lastToken>>
     ELSE IF ~AdapterObjects[a].hasCtor
     THEN /\ lastCall' = [call EXCEPT !.outcome = "threw",
                                      !.error = TypeErrorNoConstructor]
          /\ UNCHANGED <<connectorRegistry, connectors, headers, inflight, returned, lastToken>>
     ELSE LET registryKey == RegistryKey(a, protocol)
              has == registryKey \in DOMAIN connectorRegistry
              fresh == NewConnector(a, protocol)
              result == IF has THEN connectorRegistry[registryKey] ELSE fresh
          IN /\ connectorRegistry' = IF has THEN connectorRegistry ELSE (registryKey :> fresh) @@ connectorRegistry
             /\ connectors' = IF has THEN connectors ELSE connectors \cup {fresh}
             /\ lastCall' = [call EXCEPT !.outcome = "returned", !.conn = result]
             /\ returned' = returned \cup {<<a, result>>}
             /\ UNCHANGED <<headers, inflight, lastToken>>

\* new ApiServiceConnector(adapter, protocol), as the tests call the
\* constructor: nothing is detected and the registry is not involved.
newApiServiceConnector(a, protocol) ==
  LET fresh == NewConnector(a, protocol)
  IN /\ Cardinality({c \in connectors :
                       \A k \in DOMAIN connectorRegistry : connectorRegistry[k] # c})
          < MaxConstructed
     /\ connectors' = connectors \cup {fresh}
     /\ lastCall' = [NoCall EXCEPT !.op = "new", !.adapter = a, !.protocol = protocol,
                                   !.outcome = "returned", !.conn = fresh]
     /\ UNCHANGED <<connectorRegistry, headers, inflight, returned, lastToken>>

\* A variant that constructs the connector itself and leaves the registry alone.
instanciateDetached(a) ==
  LET protocol == DetectProtocol(a)
      call == [NoCall EXCEPT !.op = "createOrRetrieve", !.adapter = a,
                             !.protocol = protocol]
  IN IF protocol = NoProtocol
     THEN /\ lastCall' = [call EXCEPT !.outcome = "threw",
                                      !.error = UnrecognizedAdapterError]
          /\ UNCHANGED <<connectorRegistry, connectors, headers, inflight, returned, lastToken>>
     ELSE LET fresh == NewConnector(a, protocol)
          IN /\ connectors' = connectors \cup {fresh}
             /\ lastCall' = [call EXCEPT !.outcome = "returned", !.conn = fresh]
             /\ returned' = returned \cup {<<a, fresh>>}
             /\ UNCHANGED <<connectorRegistry, headers, inflight, lastToken>>

\* Nexus.instanciate(adapter): return ApiServiceConnector.createOrRetrieve(adapter)
instanciate(a) == createOrRetrieve(a)

-----------------------------------------------------------------------------
(* applyAuthenticationToken and getGraphQLClient *)

\* (this.adapterClient as RESTAdapter).axiosInstance
AxiosInstanceOf(c) == AdapterObjects[c.adapterClient].props.axiosInstance

\* (this.adapterClient as GraphQLAdapter).apolloClient
ApolloClientOf(c) == AdapterObjects[c.adapterClient].props.apolloClient

\* A variant without the scheme prefix.
BearerValueBare(accessToken) == accessToken

\* `Bearer ${accessToken}`
BearerValue(accessToken) == "Bearer " \o accessToken

\* A variant without the protocol test.
applyAuthenticationTokenUnchecked(c, accessToken) ==
  LET call == [NoCall EXCEPT !.op = "applyAuthenticationToken", !.target = c,
                             !.token = accessToken]
      t == IF "axiosInstance" \in DOMAIN AdapterObjects[c.adapterClient].props
           THEN AxiosInstanceOf(c) ELSE "ax1"
  IN /\ headers' = [headers EXCEPT
          ![t] = ObjectAssign(@, [authorization |-> BearerValue(accessToken)])]
     /\ lastToken' = [lastToken EXCEPT ![t] = accessToken]
     /\ lastCall' = [call EXCEPT !.outcome = "returned"]
     /\ UNCHANGED <<connectorRegistry, connectors, inflight, returned>>

applyAuthenticationToken(c, accessToken) ==
  LET call == [NoCall EXCEPT !.op = "applyAuthenticationToken", !.target = c,
                             !.token = accessToken]
  IN IF c.protocolType # "REST"
     THEN /\ lastCall' = [call EXCEPT !.outcome = "threw", !.error = TokenOnlyRestError]
          /\ UNCHANGED <<connectorRegistry, connectors, headers, inflight, returned, lastToken>>
     ELSE LET t == AxiosInstanceOf(c)
          IN /\ headers' = [headers EXCEPT
                  ![t] = ObjectAssign(@, [authorization |-> BearerValue(accessToken)])]
             /\ lastToken' = [lastToken EXCEPT ![t] = accessToken]
             /\ lastCall' = [call EXCEPT !.outcome = "returned"]
             /\ UNCHANGED <<connectorRegistry, connectors, inflight, returned>>

\* A variant without the protocol test.
getGraphQLClientUnchecked(c) ==
  /\ lastCall' = [NoCall EXCEPT !.op = "getGraphQLClient", !.target = c,
                    !.outcome = "returned",
                    !.client = IF "apolloClient" \in DOMAIN AdapterObjects[c.adapterClient].props
                               THEN ApolloClientOf(c) ELSE "undefined"]
  /\ UNCHANGED <<connectorRegistry, connectors, headers, inflight, returned, lastToken>>

getGraphQLClient(c) ==
  LET call == [NoCall EXCEPT !.op = "getGraphQLClient", !.target = c]
  IN /\ lastCall' =
          IF c.protocolType # "GraphQL"
          THEN [call EXCEPT !.outcome = "threw", !.error = NoGraphQLClientError]
          ELSE [call EXCEPT !.outcome = "returned", !.client = ApolloClientOf(c)]
     /\ UNCHANGED <<connectorRegistry, connectors, headers, inflight, returned, lastToken>>

-----------------------------------------------------------------------------
(* Request configs and what the underlying clients can answer *)

Undefined == [defined |-> FALSE]

Defined(v) == [defined |-> TRUE, value |-> v]

\* Destructuring a config: a missing key reads as undefined.
Field(obj, k) == IF k \in DOMAIN obj THEN Defined(obj[k]) ELSE Undefined

\* new Error(''): its message is the empty string, its rendering is "Error".
EmptyMessageError ==
  [kind |-> "rejected", nullish |-> FALSE, str |-> "Error", fields |-> [message |-> ""]]

\* HttpRequestConfig values the host passes to request().
HttpRequestConfigs == {
  [url |-> "/test", method |-> "GET"],
  [url |-> "/test", method |-> "POST", data |-> "body", params |-> "q",
     headers |-> [A |-> "2", authorization |-> "Basic u"]]
}

\* What the promise of axiosInstance.request can settle with.  A rejection
\* carries the thrown value: undefined (nullish), or an object with the
\* listed fields whose string rendering is str.
HttpOutcomes == {
  [kind |-> "resolved", response |-> [status |-> 200, data |-> "ok"]],
  [kind |-> "rejected", nullish |-> FALSE,
     str |-> "AxiosError: Request failed with status code 404",
     fields |-> [isAxiosError |-> TRUE, response |-> [status |-> 404, data |-> "missing"],
                 message |-> "Request failed with status code 404"]],
  [kind |-> "rejected", nullish |-> FALSE, str |-> "[object Object]",
     fields |-> [isAxiosError |-> TRUE, response |-> [status |-> 503, data |-> "down"]]],
  [kind |-> "rejected", nullish |-> FALSE, str |-> "AxiosError: Network Error",
     fields |-> [isAxiosError |-> TRUE, message |-> "Network Error"]],
  [kind |-> "rejected", nullish |-> FALSE, str |-> "[object Object]",
     fields |-> [response |-> [status |-> 500, data |-> "oops"], message |-> "boom"]],
  [kind |-> "rejected", nullish |-> FALSE, str |-> "[object Object]",
     fields |-> [isAxiosError |-> FALSE]],
  EmptyMessageError,
  [kind |-> "rejected", nullish |-> TRUE, str |-> "undefined", fields |-> EmptyObj]
}

\* error.isAxiosError, as a condition
IsAxiosErrorTruthy(e) == "isAxiosError" \in DOMAIN e.fields /\ e.fields.isAxiosError

\* error.response, as a condition
ResponseTruthy(e) == "response" \in DOMAIN e.fields

\* error.message || error, rendered in a template string
MessageOrError(e) ==
  IF "message" \in DOMAIN e.fields /\ e.fields.message # ""
  THEN e.fields.message ELSE e.str

\* A variant that does not test the isAxiosError flag.
StructuredErrorResponseOnly(e) == ResponseTruthy(e)

\* error.isAxiosError && error.response
StructuredError(e) == IsAxiosErrorTruthy(e) /\ ResponseTruthy(e)

-----------------------------------------------------------------------------
(* request on a REST connector: executeHttpRequest *)

\* The defaults the transport call of an in-flight REST request was issued
\* under: the snapshot overlaid by the per-call headers.
Overlay(originalHeaders, config) ==
  IF "headers" \in DOMAIN config
  THEN ObjectAssign(originalHeaders, config.headers)
  ELSE originalHeaders

\* A variant that also hands the per-call headers to the transport call.
executeHttpRequestPassesHeaders(c, config) ==
  LET t == AxiosInstanceOf(c)
      originalHeaders == headers[t]
  IN /\ headers' = [headers EXCEPT ![t] = Overlay(originalHeaders, config)]
     /\ inflight' = inflight (+) SetToBag({
          [conn |-> c, config |-> config, originalHeaders |-> originalHeaders,
           client |-> t, method |-> "request",
           arg |-> [url |-> Field(config, "url"), method |-> Field(config, "method"),
                    data |-> Field(config, "data"), params |-> Field(config, "params"),
                    headers |-> Field(config, "headers")]]})
     /\ UNCHANGED <<connectorRegistry, connectors, lastCall, returned, lastToken>>

\* A variant that resets the defaults to their construction-time value
\* before the overlay.
executeHttpRequestFreshDefaults(c, config) ==
  LET t == AxiosInstanceOf(c)
      originalHeaders == headers[t]
  IN /\ headers' = [headers EXCEPT ![t] = Overlay(InitialHeaders[t], config)]
     /\ inflight' = inflight (+) SetToBag({
          [conn |-> c, config |-> config, originalHeaders |-> originalHeaders,
           client |-> t, method |-> "request",
           arg |-> [url |-> Field(config, "url"), method |-> Field(config, "method"),
                    data |-> Field(config, "data"), params |-> Field(config, "params")]]})
     /\ UNCHANGED <<connectorRegistry, connectors, lastCall, returned, lastToken>>

\* A variant that yields after the snapshot: a token application runs
\* before the overlay and the transport call.
executeHttpRequestYields(c, config) ==
  LET t == AxiosInstanceOf(c)
      originalHeaders == headers[t]
      interleaved == ObjectAssign(headers[t], [authorization |-> BearerValue("abc")])
  IN /\ headers' = [headers EXCEPT ![t] = Overlay(interleaved, config)]
     /\ inflight' = inflight (+) SetToBag({
          [conn |-> c, config |-> config, originalHeaders |-> originalHeaders,
           client |-> t, method |-> "request",
           arg |-> [url |-> Field(config, "url"), method |-> Field(config, "method"),
                    data |-> Field(config, "data"), params |-> Field(config, "params")]]})
     /\ lastToken' = [lastToken EXCEPT ![t] = "abc"]
     /\ UNCHANGED <<connectorRegistry, connectors, lastCall, returned>>

\* Up to the await: snapshot the defaults, overlay the per-call headers,
\* issue axiosInstance.request({url, method, data, params}).
executeHttpRequest(c, config) ==
  LET t == AxiosInstanceOf(c)
      originalHeaders == headers[t]
  IN /\ headers' = [headers EXCEPT ![t] = Overlay(originalHeaders, config)]
     /\ inflight' = inflight (+) SetToBag({
          [conn |-> c, config |-> config, originalHeaders |-> originalHeaders,
           client |-> t, method |-> "request",
           arg |-> [url |-> Field(config, "url"), method |-> Field(config, "method"),
                    data |-> Field(config, "data"), params |-> Field(config, "params")]]})
     /\ UNCHANGED <<connectorRegistry, connectors, lastCall, returned, lastToken>>

\* A variant without the finally block.
executeHttpRequestSettleNoRestore(r, outcome) ==
  LET call == [NoCall EXCEPT !.op = "request", !.target = r.conn, !.cause = outcome]
  IN /\ lastCall' =
          IF outcome.kind = "resolved"
          THEN [call EXCEPT !.outcome = "resolved", !.response = outcome.response]
          ELSE IF outcome.nullish
          THEN [call EXCEPT !.outcome = "rejected", !.error = TypeErrorNullishError]
          ELSE IF StructuredError(outcome)
          THEN [call EXCEPT !.outcome = "resolved", !.response = outcome.fields.response]
          ELSE [call EXCEPT !.outcome = "rejected",
                            !.error = HttpFailurePrefix \o MessageOrError(outcome)]
     /\ inflight' = inflight (-) SetToBag({r})
     /\ UNCHANGED <<connectorRegistry, connectors, headers, returned, lastToken>>

\* A variant whose finally block puts back the defaults the transport was
\* created with.
executeHttpRequestSettleResets(r, outcome) ==
  LET t == AxiosInstanceOf(r.conn)
      call == [NoCall EXCEPT !.op = "request", !.target = r.conn, !.cause = outcome]
  IN /\ lastCall' =
          IF outcome.kind = "resolved"
          THEN [call EXCEPT !.outcome = "resolved", !.response = outcome.response]
          ELSE IF outcome.nullish
          THEN [call EXCEPT !.outcome = "rejected", !.error = TypeErrorNullishError]
          ELSE IF StructuredError(outcome)
          THEN [call EXCEPT !.outcome = "resolved", !.response = outcome.fields.response]
          ELSE [call EXCEPT !.outcome = "rejected",
                            !.error = HttpFailurePrefix \o MessageOrError(outcome)]
     /\ headers' = [headers EXCEPT ![t] = InitialHeaders[t]]
     /\ inflight' = inflight (-) SetToBag({r})
     /\ UNCHANGED <<connectorRegistry, connectors, returned, lastToken>>

\* A variant whose finally block, after the restore, merges back the
\* per-call headers of the requests still in flight on the transport.
executeHttpRequestSettleKeepsOverlays(r, outcome) ==
  LET t == AxiosInstanceOf(r.conn)
      call == [NoCall EXCEPT !.op = "request", !.target = r.conn, !.cause = outcome]
      rest == BagToSet(inflight (-) SetToBag({r}))
      kept == {q \in rest : q.client = t /\ "headers" \in DOMAIN q.config}
  IN /\ lastCall' =
          IF outcome.kind = "resolved"
          THEN [call EXCEPT !.outcome = "resolved", !.response = outcome.response]
          ELSE IF outcome.nullish
          THEN [call EXCEPT !.outcome = "rejected", !.error = TypeErrorNullishError]
          ELSE IF StructuredError(outcome)
          THEN [call EXCEPT !.outcome = "resolved", !.response = outcome.fields.response]
          ELSE [call EXCEPT !.outcome = "rejected",
                            !.error = HttpFailurePrefix \o MessageOrError(outcome)]
     /\ headers' = [headers EXCEPT ![t] =
          IF kept = {} THEN r.originalHeaders
          ELSE ObjectAssign(r.originalHeaders, (CHOOSE q \in kept : TRUE).config.headers)]
     /\ inflight' = inflight (-) SetToBag({r})
     /\ UNCHANGED <<connectorRegistry, connectors, returned, lastToken>>

\* The continuation once the transport settled with outcome: return or
\* catch, then finally.
executeHttpRequestSettle(r, outcome) ==
  LET t == AxiosInstanceOf(r.conn)
      call == [NoCall EXCEPT !.op = "request", !.target = r.conn, !.cause = outcome]
  IN /\ lastCall' =
          IF outcome.kind = "resolved"
          THEN [call EXCEPT !.outcome = "resolved", !.response = outcome.response]
          ELSE IF outcome.nullish
          THEN [call EXCEPT !.outcome = "rejected", !.error = TypeErrorNullishError]
          ELSE IF StructuredError(outcome)
          THEN [call EXCEPT !.outcome = "resolved", !.response = outcome.fields.response]
          ELSE [call EXCEPT !.outcome = "rejected",
                            !.error = HttpFailurePrefix \o MessageOrError(outcome)]
     /\ headers' = [headers EXCEPT ![t] = r.originalHeaders]
     /\ inflight' = inflight (-) SetToBag({r})
     /\ UNCHANGED <<connectorRegistry, connectors, returned, lastToken>>

-----------------------------------------------------------------------------
(* request on a GraphQL connector: executeGraphQLOperation *)

\* A raw query string, as its tokens; " " stands for any run of whitespace.
StringQuery(tokens) == [type |-> "string", tokens |-> tokens]

Balanced(tokens) ==
  LET RECURSIVE Depth(_)
      Depth(n) == IF n = 0 THEN 0
                  ELSE Depth(n - 1) + (IF tokens[n] = "{" THEN 1
                                       ELSE IF tokens[n] = "}" THEN -1 ELSE 0)
  IN /\ Depth(Len(tokens)) = 0
     /\ \A n \in 1..Len(tokens) : Depth(n) >= 0

\* gql`${query}` of the GraphQL library: whitespace is dropped, a text that
\* is no operation with balanced braces is a syntax error, otherwise the
\* result is the document.
Gql(tokens) ==
  LET words == SelectSeq(tokens, LAMBDA w : w # " ")
  IN IF /\ Len(words) >= 3
        /\ words[1] \in {"query", "mutation"}
        /\ words[2] = "{"
        /\ Balanced(words)
     THEN [ok |-> TRUE,
           document |-> [type |-> "object", kind |-> "Document",
                         operation |-> words[1], selection |-> Tail(words)]]
     ELSE [ok |-> FALSE, error |-> "Syntax Error: unexpected token"]

QueryText == <<" ", "query", " ", "{", "test", "}", " ">>

MutationText == <<"mutation", "{", "createTest", "}">>

MalformedText == <<"query", "{", "test">>

\* GraphQLOperationConfig values the host passes to request().
GraphQLOperationConfigs == {
  [query |-> StringQuery(QueryText)],
  [query |-> Gql(QueryText).document],
  [query |-> Gql(MutationText).document, variables |-> [id |-> "123"],
     headers |-> [A |-> "9"]],
  [query |-> StringQuery(MalformedText)]
}

\* What the promise of apolloClient.query can settle with.
GraphQLOutcomes == {
  [kind |-> "resolved", result |-> [data |-> "d1", loading |-> FALSE, networkStatus |-> 7]],
  [kind |-> "rejected", nullish |-> FALSE, str |-> "ApolloError: GraphQL error",
     fields |-> [message |-> "GraphQL error", graphQLErrors |-> "e"]],
  [kind |-> "rejected", nullish |-> FALSE, str |-> "ApolloError: Failed to fetch",
     fields |-> [message |-> "Failed to fetch", networkError |-> "e"]],
  [kind |-> "rejected", nullish |-> FALSE, str |-> "[object Object]", fields |-> EmptyObj],
  EmptyMessageError,
  [kind |-> "rejected", nullish |-> TRUE, str |-> "undefined", fields |-> EmptyObj]
}

\* A variant that hands the query to the client as it was given.
executeGraphQLOperationNoParse(c, config) ==
  /\ inflight' = inflight (+) SetToBag({
       [conn |-> c, config |-> config, originalHeaders |-> EmptyObj,
        client |-> ApolloClientOf(c), method |-> "query",
        arg |-> [query |-> config.query,
                 variables |-> Field(config, "variables"),
                 context |-> IF "headers" \in DOMAIN config
                             THEN Defined([headers |-> config.headers])
                             ELSE Undefined]]})
  /\ UNCHANGED <<connectorRegistry, connectors, headers, lastCall, returned, lastToken>>

\* A variant that passes the per-call headers themselves as the context.
executeGraphQLOperationBareContext(c, config) ==
  LET parsed == IF config.query.type = "string"
                THEN Gql(config.query.tokens)
                ELSE [ok |-> TRUE, document |-> config.query]
  IN IF ~parsed.ok
     THEN /\ lastCall' = [NoCall EXCEPT !.op = "request", !.target = c,
                            !.outcome = "rejected", !.error = parsed.error]
          /\ UNCHANGED <<connectorRegistry, connectors, headers, inflight, returned, lastToken>>
     ELSE /\ inflight' = inflight (+) SetToBag({
               [conn |-> c, config |-> config, originalHeaders |-> EmptyObj,
                client |-> ApolloClientOf(c), method |-> "query",
                arg |-> [query |-> parsed.document,
                         variables |-> Field(config, "variables"),
                         context |-> Field(config, "headers")]]})
          /\ UNCHANGED <<connectorRegistry, connectors, headers, lastCall, returned, lastToken>>

\* Up to the await: normalise the query, then issue
\* apolloClient.query({query, variables, context}).  A syntax error of gql is
\* raised before the try block.
executeGraphQLOperation(c, config) ==
  LET parsed == IF config.query.type = "string"
                THEN Gql(config.query.tokens)
                ELSE [ok |-> TRUE, document |-> config.query]
  IN IF ~parsed.ok
     THEN /\ lastCall' = [NoCall EXCEPT !.op = "request", !.target = c,
                            !.outcome = "rejected", !.error = parsed.error]
          /\ UNCHANGED <<connectorRegistry, connectors, headers, inflight, returned, lastToken>>
     ELSE /\ inflight' = inflight (+) SetToBag({
               [conn |-> c, config |-> config, originalHeaders |-> EmptyObj,
                client |-> ApolloClientOf(c), method |-> "query",
                arg |-> [query |-> parsed.document,
                         variables |-> Field(config, "variables"),
                         context |-> IF "headers" \in DOMAIN config
                                     THEN Defined([headers |-> config.headers])
                                     ELSE Undefined]]})
          /\ UNCHANGED <<connectorRegistry, connectors, headers, lastCall, returned, lastToken>>

\* A variant that returns the client's result as it is.
executeGraphQLOperationSettleRaw(r, outcome) ==
  LET call == [NoCall EXCEPT !.op = "request", !.target = r.conn, !.cause = outcome]
  IN /\ lastCall' =
          IF outcome.kind = "resolved"
          THEN [call EXCEPT !.outcome = "resolved", !.response = outcome.result]
          ELSE IF outcome.nullish
          THEN [call EXCEPT !.outcome = "rejected", !.error = TypeErrorNullishMessage]
          ELSE [call EXCEPT !.outcome = "rejected",
                            !.error = GraphQLFailurePrefix \o MessageOrError(outcome)]
     /\ inflight' = inflight (-) SetToBag({r})
     /\ UNCHANGED <<connectorRegistry, connectors, headers, returned, lastToken>>

\* The continuation once apolloClient.query settled with outcome.
executeGraphQLOperationSettle(r, outcome) ==
  LET call == [NoCall EXCEPT !.op = "request", !.target = r.conn, !.cause = outcome]
  IN /\ lastCall' =
          IF outcome.kind = "resolved"
          THEN [call EXCEPT !.outcome = "resolved",
                  !.response = [data |-> outcome.result.data, status |-> 200,
                                statusText |-> "OK", headers |-> EmptyObj,
                                config |-> EmptyObj]]
          ELSE IF outcome.nullish
          THEN [call EXCEPT !.outcome = "rejected", !.error = TypeErrorNullishMessage]
          ELSE [call EXCEPT !.outcome = "rejected",
                            !.error = GraphQLFailurePrefix \o MessageOrError(outcome)]
     /\ inflight' = inflight (-) SetToBag({r})
     /\ UNCHANGED <<connectorRegistry, connectors, headers, returned, lastToken>>

-----------------------------------------------------------------------------
(* request on a Generic connector: executeGenericOperation *)

\* GenericOperationConfig values the host passes to request().
GenericOperationConfigs == {
  [operation |-> "test", params |-> [id |-> 1]],
  [operation |-> "other", headers |-> [A |-> "7"]]
}

\* What adapter.executeRequest(config) can do: resolve, reject, or throw
\* before returning a promise (which the try block catches like a rejection).
GenericOutcomes == {
  [kind |-> "resolved", value |-> [result |-> "success"]],
  [kind |-> "rejected", nullish |-> FALSE, str |-> "Error: Generic operation failed",
     fields |-> [message |-> "Generic operation failed"]],
  [kind |-> "rejected", nullish |-> FALSE, str |-> "[object Object]",
     fields |-> [isAxiosError |-> TRUE, response |-> [status |-> 404, data |-> "missing"]]],
  EmptyMessageError,
  [kind |-> "rejected", nullish |-> TRUE, str |-> "undefined", fields |-> EmptyObj]
}

\* const { executeRequest } = adapter
ExecuteRequestOf(c) == AdapterObjects[c.adapterClient].props.executeRequest

\* A variant that calls the executor a second time with the same config.
executeGenericOperationTwice(c, config) ==
  /\ inflight' = inflight (+) SetToBag({
       [conn |-> c, config |-> config, originalHeaders |-> EmptyObj,
        client |-> ExecuteRequestOf(c), method |-> "executeRequest", arg |-> config]})
         (+) SetToBag({
       [conn |-> c, config |-> config, originalHeaders |-> EmptyObj,
        client |-> ExecuteRequestOf(c), method |-> "executeRequest", arg |-> config]})
  /\ UNCHANGED <<connectorRegistry, connectors, headers, lastCall, returned, lastToken>>

\* A variant that merges the per-call headers into a transport's defaults.
executeGenericOperationOverlays(c, config) ==
  /\ inflight' = inflight (+) SetToBag({
       [conn |-> c, config |-> config, originalHeaders |-> EmptyObj,
        client |-> ExecuteRequestOf(c), method |-> "executeRequest", arg |-> config]})
  /\ headers' = [headers EXCEPT !["ax1"] = Overlay(@, config)]
  /\ UNCHANGED <<connectorRegistry, connectors, lastCall, returned, lastToken>>

\* Up to the await: executeRequest(config).
executeGenericOperation(c, config) ==
  /\ inflight' = inflight (+) SetToBag({
       [conn |-> c, config |-> config, originalHeaders |-> EmptyObj,
        client |-> ExecuteRequestOf(c), method |-> "executeRequest", arg |-> config]})
  /\ UNCHANGED <<connectorRegistry, connectors, headers, lastCall, returned, lastToken>>

\* A variant that wraps the executor's value in the response envelope.
executeGenericOperationSettleEnveloped(r, outcome) ==
  LET call == [NoCall EXCEPT !.op = "request", !.target = r.conn, !.cause = outcome]
  IN /\ lastCall' =
          IF outcome.kind = "resolved"
          THEN [call EXCEPT !.outcome = "resolved",
                  !.response = [data |-> outcome.value, status |-> 200,
                                statusText |-> "OK", headers |-> EmptyObj,
                                config |-> EmptyObj]]
          ELSE IF outcome.nullish
          THEN [call EXCEPT !.outcome = "rejected", !.error = TypeErrorNullishMessage]
          ELSE [call EXCEPT !.outcome = "rejected",
                            !.error = GenericFailurePrefix \o MessageOrError(outcome)]
     /\ inflight' = inflight (-) SetToBag({r})
     /\ UNCHANGED <<connectorRegistry, connectors, headers, returned, lastToken>>

\* The continuation once the executor settled with outcome.
executeGenericOperationSettle(r, outcome) ==
  LET call == [NoCall EXCEPT !.op = "request", !.target = r.conn, !.cause = outcome]
  IN /\ lastCall' =
          IF outcome.kind = "resolved"
          THEN [call EXCEPT !.outcome = "resolved", !.response = outcome.value]
          ELSE IF outcome.nullish
          THEN [call EXCEPT !.outcome = "rejected", !.error = TypeErrorNullishMessage]
          ELSE [call EXCEPT !.outcome = "rejected",
                            !.error = GenericFailurePrefix \o MessageOrError(outcome)]
     /\ inflight' = inflight (-) SetToBag({r})
     /\ UNCHANGED <<connectorRegistry, connectors, headers, returned, lastToken>>

-----------------------------------------------------------------------------
(* request and its continuation *)

\* The configs a host passes to a connector of each kind (the overloads of
\* request tie the config type to the adapter type).
ConfigsFor(protocol) ==
  CASE protocol = "REST"    -> HttpRequestConfigs
    [] protocol = "GraphQL" -> GraphQLOperationConfigs
    [] protocol = "Generic" -> GenericOperationConfigs
    [] OTHER -> {EmptyObj}

OutcomesFor(protocol) ==
  CASE protocol = "REST"    -> HttpOutcomes
    [] protocol = "GraphQL" -> GraphQLOutcomes
    [] protocol = "Generic" -> GenericOutcomes
    [] OTHER -> {}

\* A variant without the final throw: the call falls off the end.
requestNoThrow(c, config) ==
  /\ BagCardinality(inflight) < MaxInFlight
  /\ config \in ConfigsFor(c.protocolType)
  /\ CASE c.protocolType = "REST"    -> executeHttpRequest(c, config)
       [] c.protocolType = "GraphQL" -> executeGraphQLOperation(c, config)
       [] c.protocolType = "Generic" -> executeGenericOperation(c, config)
       [] OTHER ->
          /\ lastCall' = [NoCall EXCEPT !.op = "request", !.target = c,
                            !.outcome = "resolved"]
          /\ UNCHANGED <<connectorRegistry, connectors, headers, inflight, returned, lastToken>>

\* request(config), from the call to its first await.
request(c, config) ==
  /\ BagCardinality(inflight) < MaxInFlight
  /\ config \in ConfigsFor(c.protocolType)
  /\ CASE c.protocolType = "REST"    -> executeHttpRequest(c, config)
       [] c.protocolType = "GraphQL" -> executeGraphQLOperation(c, config)
       [] c.protocolType = "Generic" -> executeGenericOperation(c, config)
       [] OTHER ->
          /\ lastCall' = [NoCall EXCEPT !.op = "request", !.target = c,
                            !.outcome = "rejected",
                            !.error = UnsupportedProtocolPrefix \o c.protocolType]
          /\ UNCHANGED <<connectorRegistry, connectors, headers, inflight, returned, lastToken>>

\* A variant that handles a settled call only when no other call is in flight.
requestSettlesWhenAlone(r, outcome) ==
  /\ inflight = SetToBag({r})
  /\ outcome \in OutcomesFor(r.conn.protocolType)
  /\ CASE r.conn.protocolType = "REST"    -> executeHttpRequestSettle(r, outcome)
       [] r.conn.protocolType = "GraphQL" -> executeGraphQLOperationSettle(r, outcome)
       [] r.conn.protocolType = "Generic" -> executeGenericOperationSettle(r, outcome)

\* The rest of request(config), run when the awaited call settles.
requestSettles(r, outcome) ==
  /\ outcome \in OutcomesFor(r.conn.protocolType)
  /\ CASE r.conn.protocolType = "REST"    -> executeHttpRequestSettle(r, outcome)
       [] r.conn.protocolType = "GraphQL" -> executeGraphQLOperationSettle(r, outcome)
       [] r.conn.protocolType = "Generic" -> executeGenericOperationSettle(r, outcome)

-----------------------------------------------------------------------------
(* Specifications *)

AllConfigs == HttpRequestConfigs \cup GraphQLOperationConfigs \cup GenericOperationConfigs

AllOutcomes == HttpOutcomes \cup GraphQLOutcomes \cup GenericOutcomes

\* The adapters of a host that issues REST requests: two plain-object REST
\* adapters on different transports.
HostAdapters == {1, 2}

Next ==
  \/ \E a \in HostAdapters : createOrRetrieve(a)
  \/ \E c \in connectors, t \in Tokens : applyAuthenticationToken(c, t)
  \/ \E c \in connectors : getGraphQLClient(c)
  \/ \E c \in connectors, config \in AllConfigs : request(c, config)
  \/ \E r \in BagToSet(inflight), outcome \in AllOutcomes : requestSettles(r, outcome)

Spec == Init /\ [][Next]_vars

\* A host that only builds connectors and uses the capability operations,
\* over every adapter shape.
NextFactory ==
  \/ \E a \in Adapters : createOrRetrieve(a)
  \/ \E c \in connectors, t \in Tokens : applyAuthenticationToken(c, t)
  \/ \E c \in connectors : getGraphQLClient(c)

SpecFactory == Init /\ [][NextFactory]_vars

\* The adapters of a host that issues GraphQL and Generic requests.
ProtocolAdapters == {4, 5}

NextProtocols ==
  \/ \E a \in ProtocolAdapters : createOrRetrieve(a)
  \/ \E c \in connectors, t \in Tokens : applyAuthenticationToken(c, t)
  \/ \E c \in connectors : getGraphQLClient(c)
  \/ \E c \in connectors, config \in AllConfigs : request(c, config)
  \/ \E r \in BagToSet(inflight), outcome \in AllOutcomes : requestSettles(r, outcome)

SpecProtocols == Init /\ [][NextProtocols]_vars

\* The adapters of a host with one connector of each kind.
KindAdapters == {1, 4, 5}

\* A host that builds one connector of each kind and issues requests.
NextKinds ==
  \/ \E a \in KindAdapters : createOrRetrieve(a)
  \/ \E c \in connectors, config \in AllConfigs : request(c, config)
  \/ \E r \in BagToSet(inflight), outcome \in AllOutcomes : requestSettles(r, outcome)

SpecKinds == Init /\ [][NextKinds]_vars

\* The adapters of a host with two REST connectors on different transports,
\* a GraphQL connector and a Generic connector.
FrameAdapters == {1, 3, 4, 5}

\* What the underlying calls of that host settle with: a success or a
\* failure.
FrameOutcomes == {o \in AllOutcomes : o.kind = "resolved" \/ o = EmptyMessageError}

\* The configs of that host: those that carry per-call headers.
FrameConfigs == {config \in AllConfigs : "headers" \in DOMAIN config}

\* A host that uses every operation on them.
NextFrame ==
  \/ \E a \in FrameAdapters : createOrRetrieve(a)
  \/ \E c \in connectors : applyAuthenticationToken(c, "abc")
  \/ \E c \in connectors : getGraphQLClient(c)
  \/ \E c \in connectors, config \in FrameConfigs : request(c, config)
  \/ \E r \in BagToSet(inflight), outcome \in FrameOutcomes : requestSettles(r, outcome)

SpecFrame == Init /\ [][NextFrame]_vars

\* The adapters of a host whose underlying calls all settle in the end.
LiveAdapters == {1, 4}

\* The connectors the factory builds for them.
LiveConnectors ==
  {[adapterClient |-> a, protocolType |-> DetectProtocol(a), oid |-> 0] : a \in LiveAdapters}

\* A request of connector c with config is waiting for its underlying call.
Pending(c, config) ==
  \E r \in BagToSet(inflight) : r.conn = c /\ r.config = config

\* That host issues a request only while no request of the same connector
\* with the same config is waiting.
NextLive ==
  \/ \E a \in LiveAdapters : createOrRetrieve(a)
  \/ \E c \in connectors : applyAuthenticationToken(c, "abc")
  \/ \E c \in connectors, config \in AllConfigs :
       ~Pending(c, config) /\ request(c, config)
  \/ \E r \in BagToSet(inflight), outcome \in FrameOutcomes : requestSettles(r, outcome)

\* Every underlying call that was issued resolves or rejects in the end, and
\* the continuation of the awaiting request then runs.
SpecLive ==
  /\ Init /\ [][NextLive]_vars
  /\ \A c \in LiveConnectors, config \in AllConfigs :
       WF_vars(\E r \in BagToSet(inflight), outcome \in FrameOutcomes :
                 r.conn = c /\ r.config = config /\ requestSettles(r, outcome))

\* What a host constructs without the factory: a GraphQL connector and a
\* connector of a protocol kind the core does not know.
DirectConstructions == {<<4, "GraphQL">>, <<8, "UnsupportedProtocol">>}

\* A host that constructs its connectors itself, as the tests do.
NextDirect ==
  \/ \E d \in DirectConstructions : newApiServiceConnector(d[1], d[2])
  \/ \E c \in connectors, config \in AllConfigs \cup {EmptyObj} : request(c, config)
  \/ \E r \in BagToSet(inflight), outcome \in AllOutcomes : requestSettles(r, outcome)

SpecDirect == Init /\ [][NextDirect]_vars

\* The adapters a host hands to Nexus.instanciate: a plain-object REST
\* adapter, one that matches no detector, a GraphQLConfig and one without a
\* constructor.
FacadeAdapters == {1, 8, 10, 11}

\* The adapters the same host hands to ApiServiceConnector.createOrRetrieve:
\* another plain-object REST adapter and a plain-object GraphQL adapter.
FactoryAdapters == {2, 4}

\* A host that uses both entry points.
NextFacade ==
  \/ \E a \in FacadeAdapters : instanciate(a)
  \/ \E a \in FactoryAdapters : createOrRetrieve(a)
  \/ \E c \in connectors, t \in Tokens : applyAuthenticationToken(c, t)
  \/ \E c \in connectors : getGraphQLClient(c)

SpecFacade == Init /\ [][NextFacade]_vars

\* The adapters a host gives the factory while it also constructs a
\* connector itself: a RESTConfig, an object no detector matches and a
\* GraphQLConfig.
MixedAdapters == {3, 8, 10}

\* A host that uses the factory and the constructor side by side.
NextMixed ==
  \/ \E a \in MixedAdapters : createOrRetrieve(a)
  \/ newApiServiceConnector(8, "UnsupportedProtocol")
  \/ \E c \in connectors, config \in AllConfigs \cup {EmptyObj} : request(c, config)
  \/ \E r \in BagToSet(inflight), outcome \in FrameOutcomes : requestSettles(r, outcome)

SpecMixed == Init /\ [][NextMixed]_vars

-----------------------------------------------------------------------------
(* Properties *)

\* The fields the detectors look for that adapter a has.
DetectorFields(a) ==
  DOMAIN AdapterObjects[a].props
    \cap {"axiosInstance", "apolloClient", "client", "executeRequest"}

\* The connectorRegistry key of a constructed connector.
KeyOf(c) == AdapterObjects[c.adapterClient].ctorName \o ":" \o c.protocolType

\* C1: after a factory call, the protocol it resolved is REST for an adapter
\* with only axiosInstance, GraphQL for one with only apolloClient, Generic
\* for one with client and executeRequest (and neither of the other two);
\* an adapter that matches no detector, such as one with only client or only
\* executeRequest, makes the call throw the unrecognised-adapter error and
\* return no connector; a returned connector has the resolved protocol.
C1_DetectionByShape ==
  lastCall.op = "createOrRetrieve" =>
    LET f == DetectorFields(lastCall.adapter)
    IN /\ f = {"axiosInstance"} => lastCall.protocol = "REST"
       /\ f = {"apolloClient"} => lastCall.protocol = "GraphQL"
       /\ f = {"client", "executeRequest"} => lastCall.protocol = "Generic"
       /\ f \in {{}, {"client"}, {"executeRequest"}} =>
            /\ lastCall.outcome = "threw"
            /\ lastCall.error = UnrecognizedAdapterError
            /\ lastCall.conn = NoConnector
       /\ lastCall.outcome = "returned" =>
            /\ lastCall.protocol \in ClientProtocol
            /\ lastCall.conn.protocolType = lastCall.protocol

\* A Generic connector was just returned while a REST and a GraphQL connector
\* exist, and a client-only adapter was turned down before.
C1_Witness ==
  /\ lastCall.op = "createOrRetrieve"
  /\ lastCall.outcome = "returned"
  /\ lastCall.protocol = "Generic"
  /\ \E c \in connectors : c.protocolType = "REST"
  /\ \E c \in connectors : c.protocolType = "GraphQL"

\* C2: any two successful factory calls whose adapters have the same type
\* name and the same detected protocol returned the same connector object,
\* whatever happened in between.
C2_RegistryCollapse ==
  \A p \in returned, q \in returned :
    ( /\ AdapterObjects[p[1]].ctorName = AdapterObjects[q[1]].ctorName
      /\ DetectProtocol(p[1]) = DetectProtocol(q[1]) )
    => p[2] = q[2]

\* Two different adapter instances holding different transports were given
\* the same connector, with a request in flight.
C2_Witness ==
  /\ \E p \in returned, q \in returned :
       /\ p[1] # q[1]
       /\ AdapterObjects[p[1]].props # AdapterObjects[q[1]].props
       /\ p[2] = q[2]
  /\ inflight # EmptyBag

\* C3: the connector a factory call returns holds the adapter that was passed
\* in and that adapter's detected protocol.
C3_ReturnedHoldsPassedAdapter ==
  (lastCall.op = "createOrRetrieve" /\ lastCall.outcome = "returned") =>
    /\ lastCall.conn.adapterClient = lastCall.adapter
    /\ lastCall.conn.protocolType = DetectProtocol(lastCall.adapter)

\* C4: a factory call on an adapter no detector matches throws the
\* unrecognised-adapter error, returns no connector and leaves the connectorRegistry
\* and the connectors as they were; on every other adapter it returns.
C4_OnlyUnrecognizedFails ==
  [][\A a \in Adapters :
       createOrRetrieve(a) =>
         IF DetectProtocol(a) = NoProtocol
         THEN /\ lastCall'.outcome = "threw"
              /\ lastCall'.error = UnrecognizedAdapterError
              /\ lastCall'.conn = NoConnector
              /\ connectorRegistry' = connectorRegistry
              /\ connectors' = connectors
         ELSE lastCall'.outcome = "returned"]_vars

\* C5: every step keeps each connectorRegistry entry as it is, and after it no two
\* constructed connectors have the same key, every constructed connector is
\* the one stored under its key, and the connectorRegistry's keys are exactly the keys
\* of the successful factory calls.
C5_OneConnectorPerKey ==
  [][/\ \A k \in DOMAIN connectorRegistry :
          k \in DOMAIN connectorRegistry' /\ connectorRegistry'[k] = connectorRegistry[k]
     /\ \A c \in connectors', d \in connectors' : KeyOf(c) = KeyOf(d) => c = d
     /\ \A c \in connectors' :
          KeyOf(c) \in DOMAIN connectorRegistry' /\ connectorRegistry'[KeyOf(c)] = c
     /\ DOMAIN connectorRegistry' =
          {RegistryKey(p[1], DetectProtocol(p[1])) : p \in returned'}]_vars

\* A second adapter of an occupied key was passed to the factory while
\* requests were in flight.
C5_Witness ==
  /\ Cardinality({p[1] : p \in returned}) = 2
  /\ Cardinality(DOMAIN connectorRegistry) = 1
  /\ BagCardinality(inflight) = 2

\* C6: applyAuthenticationToken(t) on a REST connector sets the authorization
\* default header of that connector's transport to "Bearer " followed by t
\* and leaves every other default header of it as it was.
C6_TokenSetsBearer ==
  [][\A c \in connectors, t \in Tokens :
       (applyAuthenticationToken(c, t) /\ c.protocolType = "REST") =>
         LET ax == AdapterObjects[c.adapterClient].props.axiosInstance
         IN /\ DOMAIN headers'[ax] = DOMAIN headers[ax] \cup {"authorization"}
            /\ headers'[ax]["authorization"] = "Bearer " \o t
            /\ \A k \in DOMAIN headers[ax] \ {"authorization"} :
                 headers'[ax][k] = headers[ax][k]]_vars

\* A token was just applied on a transport that has another default header
\* and a request in flight.
C6_Witness ==
  /\ lastCall.op = "applyAuthenticationToken"
  /\ lastCall.outcome = "returned"
  /\ \E ax \in Transports :
       /\ "authorization" \in DOMAIN headers[ax]
       /\ headers[ax]["authorization"] = "Bearer xyz"
       /\ "A" \in DOMAIN headers[ax]
  /\ inflight # EmptyBag

\* C7: applyAuthenticationToken on a connector that is not REST throws the
\* token-only-for-REST error and changes neither the default headers of any
\* transport nor the connectorRegistry, the connectors or the requests in flight.
C7_TokenOnNonRestFails ==
  [][\A c \in connectors, t \in Tokens :
       (applyAuthenticationToken(c, t) /\ c.protocolType # "REST") =>
         /\ lastCall'.outcome = "threw"
         /\ lastCall'.error = TokenOnlyRestError
         /\ UNCHANGED coreVars]_vars

\* The call just failed on a Generic connector after a token had been applied
\* to a transport.
C7_Witness ==
  /\ lastCall.op = "applyAuthenticationToken"
  /\ lastCall.outcome = "threw"
  /\ lastCall.target.protocolType = "Generic"
  /\ \E ax \in Transports : "authorization" \in DOMAIN headers[ax]

\* C8: once a token t was applied on a transport, every REST request issued
\* on it afterwards without a per-call authorization header has its transport
\* call issued under the default authorization header "Bearer t", until
\* another token is applied.
C8_TokenPersists ==
  [][\A c \in connectors, config \in HttpRequestConfigs :
       ( /\ request(c, config)
         /\ c.protocolType = "REST"
         /\ lastToken[AxiosInstanceOf(c)] # NoToken
         /\ ~("headers" \in DOMAIN config /\ "authorization" \in DOMAIN config.headers) )
       => LET ax == AxiosInstanceOf(c)
          IN /\ "authorization" \in DOMAIN headers'[ax]
             /\ headers'[ax]["authorization"] = "Bearer " \o lastToken[ax]]_vars

\* C9: getGraphQLClient on a GraphQL connector returns the apolloClient of
\* the connector's adapter, on any other connector it throws the
\* no-GraphQL-client error, and in both cases the connectorRegistry, the connectors,
\* the default headers and the requests in flight are unchanged.
C9_GraphQLClientOrError ==
  [][\A c \in connectors :
       getGraphQLClient(c) =>
         /\ IF c.protocolType = "GraphQL"
            THEN /\ lastCall'.outcome = "returned"
                 /\ lastCall'.client = AdapterObjects[c.adapterClient].props.apolloClient
            ELSE /\ lastCall'.outcome = "threw"
                 /\ lastCall'.error = NoGraphQLClientError
         /\ UNCHANGED coreVars]_vars

\* The client of the second GraphQL adapter was just returned, and a REST
\* connector exists.
C9_Witness ==
  /\ lastCall.op = "getGraphQLClient"
  /\ lastCall.outcome = "returned"
  /\ lastCall.client = "apollo2"
  /\ \E c \in connectors : c.protocolType = "REST"

PerCallHeaders(config) ==
  IF "headers" \in DOMAIN config THEN config.headers ELSE EmptyObj

\* C11: a REST request whose transport call failed with an error that has no
\* attached response rejects with the message "Falha na requisição HTTP: "
\* followed by the error's message when it has a message field, and by the
\* string rendering of the error value when it has none.
C11_UnstructuredFailureWrapped ==
  ( /\ lastCall.op = "request"
    /\ lastCall.target.protocolType = "REST"
    /\ lastCall.cause.kind = "rejected"
    /\ "response" \notin DOMAIN lastCall.cause.fields )
  => LET e == lastCall.cause
     IN /\ lastCall.outcome = "rejected"
        /\ lastCall.error =
             "Falha na requisição HTTP: "
               \o (IF "message" \in DOMAIN e.fields THEN e.fields.message ELSE e.str)

\* C12: a REST request with per-call headers H on a transport whose defaults
\* are D when the call starts is issued while the defaults are D overlaid by
\* H (H wins on shared keys) and keeps D as its snapshot; the step in which
\* the request settles, however it settles, leaves the defaults of its
\* transport equal to that snapshot.
C12_OverlayAndRestore ==
  [][/\ \A c \in connectors, config \in HttpRequestConfigs :
          (request(c, config) /\ c.protocolType = "REST") =>
            LET ax == AdapterObjects[c.adapterClient].props.axiosInstance
                D == headers[ax]
                H == PerCallHeaders(config)
            IN /\ DOMAIN headers'[ax] = DOMAIN D \cup DOMAIN H
               /\ \A k \in DOMAIN headers'[ax] :
                    headers'[ax][k] = IF k \in DOMAIN H THEN H[k] ELSE D[k]
               /\ \E r \in BagToSet(inflight') :
                    /\ r.conn = c
                    /\ r.config = config
                    /\ r.originalHeaders = D
                    /\ inflight' = inflight (+) SetToBag({r})
     /\ \A r \in BagToSet(inflight) :
          ( /\ r.conn.protocolType = "REST"
            /\ lastCall'.cause \in HttpOutcomes
            /\ requestSettles(r, lastCall'.cause) )
          => headers'[AdapterObjects[r.conn.adapterClient].props.axiosInstance]
               = r.originalHeaders]_vars

\* A request with per-call headers is in flight on the transport whose
\* defaults were {A: "1"}, the defaults are now its overlay, and another
\* request has settled with a rejection.
C12_Witness ==
  /\ lastCall.op = "request"
  /\ lastCall.outcome = "rejected"
  /\ \E r \in BagToSet(inflight) :
       /\ "headers" \in DOMAIN r.config
       /\ r.originalHeaders = [A |-> "1"]
       /\ headers["ax1"] = [A |-> "2", authorization |-> "Basic u"]
       /\ AdapterObjects[r.conn.adapterClient].props.axiosInstance = "ax1"

\* C13: when a REST request is issued while another request on the same
\* transport is in flight, every header that the request in flight supplied,
\* that is in the defaults and that the new request does not supply itself
\* is in the defaults under which the new request's transport call is issued.
C13_HeaderRace ==
  [][\A c \in connectors, config \in HttpRequestConfigs :
       (request(c, config) /\ c.protocolType = "REST") =>
         LET ax == AdapterObjects[c.adapterClient].props.axiosInstance
         IN \A r \in BagToSet(inflight) :
              AdapterObjects[r.conn.adapterClient].props.axiosInstance = ax =>
                \A k \in DOMAIN PerCallHeaders(r.config) \ DOMAIN PerCallHeaders(config) :
                  (k \in DOMAIN headers[ax] /\ headers[ax][k] = r.config.headers[k])
                  => (k \in DOMAIN headers'[ax] /\ headers'[ax][k] = r.config.headers[k])]_vars

\* Two requests are in flight on one transport; the second has no per-call
\* headers and was issued under an authorization header that only the first
\* supplied.
C13_Witness ==
  \E r1 \in BagToSet(inflight), r2 \in BagToSet(inflight) :
    /\ r1.conn = r2.conn
    /\ "headers" \in DOMAIN r1.config
    /\ "authorization" \notin DOMAIN r1.originalHeaders
    /\ "headers" \notin DOMAIN r2.config
    /\ "authorization" \in DOMAIN r2.originalHeaders
    /\ r2.originalHeaders["authorization"] = r1.config.headers["authorization"]
    /\ lastToken[AdapterObjects[r1.conn.adapterClient].props.axiosInstance] = NoToken

C15_GraphQLEnvelope ==
  [][\A r \in BagToSet(inflight), outcome \in GraphQLOutcomes :
       ( /\ requestSettles(r, outcome)
         /\ r.conn.protocolType = "GraphQL"
         /\ outcome.kind = "resolved" )
       => /\ lastCall'.outcome = "resolved"
          /\ DOMAIN lastCall'.response =
               {"data", "status", "statusText", "headers", "config"}
          /\ lastCall'.response.data = outcome.result.data
          /\ lastCall'.response.status = 200
          /\ lastCall'.response.statusText = "OK"
          /\ DOMAIN lastCall'.response.headers = {}
          /\ DOMAIN lastCall'.response.config = {}]_vars

\* A GraphQL request just resolved with the envelope around "d1" while a
\* mutation is in flight.
C15_Witness ==
  /\ lastCall.op = "request"
  /\ lastCall.target.protocolType = "GraphQL"
  /\ lastCall.outcome = "resolved"
  /\ lastCall.response.data = "d1"
  /\ lastCall.response.status = 200
  /\ \E r \in BagToSet(inflight) :
       r.conn.protocolType = "GraphQL" /\ r.arg.query.operation = "mutation"

\* The words of a query text: its tokens without the whitespace.
Words(tokens) == SelectSeq(tokens, LAMBDA w : w # " ")

\* C16: a GraphQL request whose query is a raw string calls the client with
\* the document of that text, the same document an equivalent precompiled
\* query carries, and a request whose query is a document calls the client
\* with that document as it is; when the query call resolves, the envelope
\* has status 200 and statusText 'OK' and is made of the server's result
\* alone, so it is the same whichever of the two forms the query had.
C16_StringOrDocument ==
  [][/\ \A c \in connectors, config \in GraphQLOperationConfigs :
          ( /\ request(c, config)
            /\ c.protocolType = "GraphQL"
            /\ inflight' # inflight )
          => \E r \in BagToSet(inflight') :
               /\ inflight' = inflight (+) SetToBag({r})
               /\ r.config = config
               /\ r.arg.query.type = "object"
               /\ IF config.query.type = "string"
                  THEN /\ r.arg.query.kind = "Document"
                       /\ r.arg.query.operation = Words(config.query.tokens)[1]
                       /\ r.arg.query.selection = Tail(Words(config.query.tokens))
                       /\ \A other \in GraphQLOperationConfigs :
                            ( /\ other.query.type = "object"
                              /\ other.query.operation = Words(config.query.tokens)[1]
                              /\ other.query.selection = Tail(Words(config.query.tokens)) )
                            => r.arg.query = other.query
                  ELSE r.arg.query = config.query
     /\ \A r \in BagToSet(inflight), outcome \in GraphQLOutcomes :
          ( /\ requestSettles(r, outcome)
            /\ r.conn.protocolType = "GraphQL"
            /\ outcome.kind = "resolved" )
          => lastCall'.response =
               [data |-> outcome.result.data, status |-> 200,
                statusText |-> "OK", headers |-> EmptyObj, config |-> EmptyObj]]_vars

\* A request with a raw string query and a request with the precompiled
\* document of the same text are in flight with the same argument to the
\* client, after a request resolved with status 200.
C16_Witness ==
  /\ lastCall.op = "request"
  /\ lastCall.outcome = "resolved"
  /\ lastCall.target.protocolType = "GraphQL"
  /\ lastCall.response.status = 200
  /\ \E r1 \in BagToSet(inflight), r2 \in BagToSet(inflight) :
       /\ r1.conn.protocolType = "GraphQL"
       /\ r2.conn.protocolType = "GraphQL"
       /\ r1.config.query.type = "string"
       /\ r2.config.query.type = "object"
       /\ r1.arg = r2.arg

\* C17: a GraphQL request whose query call failed, with a query-level or a
\* network-level error alike, rejects with the message
\* "Falha na operação GraphQL: " followed by the error's message when it has
\* a message field, and by the string rendering of the error value when it
\* has none; it never resolves.
C17_GraphQLFailureWrapped ==
  ( /\ lastCall.op = "request"
    /\ lastCall.target.protocolType = "GraphQL"
    /\ lastCall.cause.kind = "rejected" )
  => LET e == lastCall.cause
     IN /\ lastCall.outcome = "rejected"
        /\ lastCall.error =
             "Falha na operação GraphQL: "
               \o (IF "message" \in DOMAIN e.fields THEN e.fields.message ELSE e.str)

\* C18: request(config) on a Generic connector makes one call of the
\* adapter's executeRequest, with that config unmodified as its argument,
\* and when the executor resolves with a value the request resolves with
\* that value itself.
C18_GenericPassThrough ==
  [][/\ \A c \in connectors, config \in GenericOperationConfigs :
          (request(c, config) /\ c.protocolType = "Generic") =>
            \E r \in BagToSet(inflight') :
              /\ inflight' = inflight (+) SetToBag({r})
              /\ r.conn = c
              /\ r.arg = config
     /\ \A r \in BagToSet(inflight), outcome \in GenericOutcomes :
          ( /\ requestSettles(r, outcome)
            /\ r.conn.protocolType = "Generic"
            /\ outcome.kind = "resolved" )
          => /\ lastCall'.outcome = "resolved"
             /\ lastCall'.response = outcome.value]_vars

\* A Generic request just resolved with the executor's value while a request
\* whose config carries headers is in flight with that config as argument.
C18_Witness ==
  /\ lastCall.op = "request"
  /\ lastCall.target.protocolType = "Generic"
  /\ lastCall.outcome = "resolved"
  /\ lastCall.response = [result |-> "success"]
  /\ \E r \in BagToSet(inflight) :
       /\ r.conn.protocolType = "Generic"
       /\ "headers" \in DOMAIN r.config
       /\ r.arg = r.config

\* C19: a Generic request whose executeRequest failed rejects with the
\* message "Falha na operação genérica: " followed by the error's message
\* when it has a message field, and by the string rendering of the error
\* value when it has none; it never resolves, also when the error carries a
\* response.
C19_GenericFailureWrapped ==
  ( /\ lastCall.op = "request"
    /\ lastCall.target.protocolType = "Generic"
    /\ lastCall.cause.kind = "rejected" )
  => LET e == lastCall.cause
     IN /\ lastCall.outcome = "rejected"
        /\ lastCall.error =
             "Falha na operação genérica: "
               \o (IF "message" \in DOMAIN e.fields THEN e.fields.message ELSE e.str)

\* The text s begins with the text prefix.
StartsWith(s, prefix) ==
  Len(s) >= Len(prefix) /\ SubSeq(s, 1, Len(prefix)) = prefix

\* The failure prefix of each protocol's strategy.
FailurePrefix ==
  [REST |-> "Falha na requisição HTTP: ", GraphQL |-> "Falha na operação GraphQL: ",
   Generic |-> "Falha na operação genérica: "]

\* C20: a request on a connector of a known protocol that has ended has
\* resolved or rejected, and when it rejected the error message begins with
\* the failure prefix of the connector's own protocol and what follows the
\* prefix begins with no protocol's failure prefix.
C20_UniformRejection ==
  (lastCall.op = "request" /\ lastCall.target.protocolType \in ClientProtocol) =>
    /\ lastCall.outcome \in {"resolved", "rejected"}
    /\ lastCall.outcome = "rejected" =>
         LET own == FailurePrefix[lastCall.target.protocolType]
         IN /\ StartsWith(lastCall.error, own)
            /\ \A p \in ClientProtocol :
                 ~StartsWith(SubSeq(lastCall.error, Len(own) + 1, Len(lastCall.error)),
                             FailurePrefix[p])

\* C21: request() on a connector whose protocol kind is none of REST,
\* GraphQL and Generic rejects with "Protocolo não suportado: " followed by
\* that kind, issues no underlying call and changes nothing of the registry,
\* the connectors, the default headers and the requests in flight.
C21_UnsupportedProtocol ==
  [][\A c \in connectors :
       (c.protocolType \notin {"REST", "GraphQL", "Generic"} /\ request(c, EmptyObj)) =>
         /\ lastCall'.op = "request"
         /\ lastCall'.target = c
         /\ lastCall'.outcome = "rejected"
         /\ lastCall'.error = "Protocolo não suportado: " \o c.protocolType
         /\ inflight' = inflight
         /\ UNCHANGED coreVars]_vars

\* A request on a connector of kind UnsupportedProtocol was just rejected
\* with the error naming that kind while a GraphQL request is in flight.
C21_Witness ==
  /\ lastCall.op = "request"
  /\ lastCall.target.protocolType = "UnsupportedProtocol"
  /\ lastCall.outcome = "rejected"
  /\ lastCall.error = "Protocolo não suportado: UnsupportedProtocol"
  /\ inflight # EmptyBag

\* C22: a call of Nexus.instanciate does what createOrRetrieve does on the one
\* shared registry: it throws the unrecognised-adapter error (or the TypeError
\* of an adapter without a constructor) and changes nothing, or it returns the
\* connector already stored under the adapter's key, whichever entry point
\* stored it, and leaves the registry alone, or, the key being free, it returns
\* a new connector on the adapter and stores it under the key; and connectors
\* the two entry points returned for adapters of one key are one connector.
C22_FacadeEquivalence ==
  [][\A a \in FacadeAdapters :
       instanciate(a) =>
         LET protocol == DetectProtocol(a)
             key == AdapterObjects[a].ctorName \o ":" \o protocol
         IN /\ lastCall'.adapter = a
            /\ IF protocol = NoProtocol \/ ~AdapterObjects[a].hasCtor
               THEN /\ lastCall'.outcome = "threw"
                    /\ lastCall'.error = IF protocol = NoProtocol
                                         THEN UnrecognizedAdapterError
                                         ELSE TypeErrorNoConstructor
                    /\ lastCall'.conn = NoConnector
                    /\ UNCHANGED <<coreVars, returned>>
               ELSE /\ lastCall'.outcome = "returned"
                    /\ <<a, lastCall'.conn>> \in returned'
                    /\ IF key \in DOMAIN connectorRegistry
                       THEN /\ lastCall'.conn = connectorRegistry[key]
                            /\ UNCHANGED coreVars
                       ELSE /\ lastCall'.conn.adapterClient = a
                            /\ lastCall'.conn.protocolType = protocol
                            /\ lastCall'.conn \notin connectors
                            /\ connectors' = connectors \cup {lastCall'.conn}
                            /\ UNCHANGED <<headers, inflight>>
                            /\ DOMAIN connectorRegistry' = DOMAIN connectorRegistry \cup {key}
                            /\ connectorRegistry'[key] = lastCall'.conn
                            /\ \A k \in DOMAIN connectorRegistry :
                                 connectorRegistry'[k] = connectorRegistry[k]
                    /\ \A b \in FactoryAdapters, d \in connectors' :
                         (<<b, d>> \in returned' /\ KeyOf(d) = key) => d = lastCall'.conn]_vars

\* C22 happens: the facade has just returned, for adapter 1, the connector
\* the factory had made for adapter 2 under the key they share.
C22_Witness ==
  /\ lastCall.op = "createOrRetrieve"
  /\ lastCall.adapter = 1
  /\ lastCall.outcome = "returned"
  /\ lastCall.conn.adapterClient = 2
  /\ <<2, lastCall.conn>> \in returned
  /\ <<1, lastCall.conn>> \in returned

\* C23: the protocol a factory call resolved is the first, in the order
\* REST, GraphQL, Generic, whose detector accepts the adapter: REST for an
\* adapter with axiosInstance and apolloClient, GraphQL for one with
\* apolloClient, client and executeRequest and no axiosInstance; and
\* adapters with the same fields, in whatever order, were given connectors
\* of the same protocol.
C23_DetectionPrecedence ==
  /\ lastCall.op = "createOrRetrieve" =>
       LET f == {OwnKeys[lastCall.adapter][i] : i \in DOMAIN OwnKeys[lastCall.adapter]}
       IN /\ {"axiosInstance", "apolloClient"} \subseteq f => lastCall.protocol = "REST"
          /\ ({"apolloClient", "client", "executeRequest"} \subseteq f
                /\ "axiosInstance" \notin f) => lastCall.protocol = "GraphQL"
          /\ lastCall.protocol = "REST" <=> "axiosInstance" \in f
          /\ lastCall.protocol = "GraphQL" <=>
               ("apolloClient" \in f /\ "axiosInstance" \notin f)
          /\ lastCall.protocol = "Generic" <=>
               ({"client", "executeRequest"} \subseteq f
                 /\ "apolloClient" \notin f /\ "axiosInstance" \notin f)
  /\ \A p \in returned, q \in returned :
       {OwnKeys[p[1]][i] : i \in DOMAIN OwnKeys[p[1]]}
           = {OwnKeys[q[1]][i] : i \in DOMAIN OwnKeys[q[1]]}
         => p[2].protocolType = q[2].protocolType

\* C23 happens: adapter 12, whose apolloClient comes first, was just
\* resolved to REST after adapter 9, whose axiosInstance comes first, and the
\* adapter with apolloClient, client and executeRequest had been resolved to
\* GraphQL.
C23_Witness ==
  /\ lastCall.op = "createOrRetrieve"
  /\ lastCall.adapter = 12
  /\ lastCall.outcome = "returned"
  /\ lastCall.protocol = "REST"
  /\ \E c \in connectors : <<9, c>> \in returned /\ c.protocolType = "REST"
  /\ \E c \in connectors : <<10, c>> \in returned /\ c.protocolType = "GraphQL"

\* C24: every connector a factory call ever returned, every connector a
\* request in flight was made on, the connector the last operation acted on
\* and every connector in the registry is a connector as it was constructed:
\* it is still bound to the adapter and the protocol kind it was built with,
\* and that kind is the one detected on its adapter.
C24_ConnectorImmutable ==
  /\ \A p \in returned :
       /\ p[2] \in connectors
       /\ p[2].protocolType = DetectProtocol(p[2].adapterClient)
  /\ \A r \in BagToSet(inflight) : r.conn \in connectors
  /\ \A k \in DOMAIN connectorRegistry : connectorRegistry[k] \in connectors
  /\ lastCall.target \in connectors \cup {NoConnector}

\* C24 happens: a factory call on adapter 2 has just returned the connector
\* built on adapter 1, after a token was applied through it and while a
\* request on it is in flight.
C24_Witness ==
  /\ lastCall.op = "createOrRetrieve"
  /\ lastCall.adapter = 2
  /\ lastCall.outcome = "returned"
  /\ lastCall.conn.adapterClient = 1
  /\ lastToken["ax1"] # NoToken
  /\ \E r \in BagToSet(inflight) : r.conn = lastCall.conn

\* The client function a connector of each kind calls.
ClientCallOf(c) ==
  CASE c.protocolType = "REST" ->
         <<AdapterObjects[c.adapterClient].props.axiosInstance, "request">>
    [] c.protocolType = "GraphQL" ->
         <<AdapterObjects[c.adapterClient].props.apolloClient, "query">>
    [] c.protocolType = "Generic" ->
         <<AdapterObjects[c.adapterClient].props.executeRequest, "executeRequest">>

\* C25 as stated: every request() on a REST, GraphQL or Generic connector
\* issues exactly one call to its client.
C25_ExactlyOneCall ==
  [][\A c \in connectors, config \in AllConfigs :
       request(c, config) =>
         BagCardinality(inflight') = BagCardinality(inflight) + 1]_vars

\* C25, amended: a request() on a REST, GraphQL or Generic connector issues
\* at most one call: none when the connector is GraphQL and its query is a
\* string the parser turns down, otherwise exactly one, made on the request
\* function of the connector's own transport, the query function of its own
\* GraphQL client or its own adapter's executeRequest according to the
\* connector's kind, the calls already in flight staying as they are; and the
\* step that handles a settled call, whether it resolved or rejected, removes
\* that call and issues none.
C25_AtMostOneCall ==
  [][/\ \A c \in connectors, config \in AllConfigs :
          (c.protocolType \in ClientProtocol /\ request(c, config)) =>
            IF /\ c.protocolType = "GraphQL"
               /\ config.query.type = "string"
               /\ ~Gql(config.query.tokens).ok
            THEN inflight' = inflight
            ELSE \E r \in BagToSet(inflight') :
                   /\ inflight' = inflight (+) SetToBag({r})
                   /\ r.conn = c
                   /\ r.config = config
                   /\ <<r.client, r.method>> = ClientCallOf(c)
     /\ \A r \in BagToSet(inflight), outcome \in AllOutcomes :
          requestSettles(r, outcome) =>
            /\ inflight' = inflight (-) SetToBag({r})
            /\ BagCardinality(inflight') = BagCardinality(inflight) - 1]_vars

\* C25 happens: a call of each kind is in flight, each on its own client,
\* after a GraphQL request with a malformed query string was rejected
\* without a call.
C25_Witness ==
  /\ lastCall.op = "request"
  /\ lastCall.outcome = "rejected"
  /\ lastCall.target.protocolType = "GraphQL"
  /\ lastCall.cause = NoOutcome
  /\ \E r \in BagToSet(inflight) : r.method = "request" /\ r.client = "ax1"
  /\ \E r \in BagToSet(inflight) : r.method = "executeRequest" /\ r.client = "exec1"

\* C26: the step in which request() is called on a REST connector is the
\* step in which its transport call comes to be in flight, and nothing else
\* happens in it: the call's snapshot is the defaults as they were when
\* request() was called, the defaults after the step differ from that
\* snapshot in the per-call headers alone, no token is applied, no other call
\* starts or settles, no operation returns and the other transport is left
\* alone; so the request is never at a point between its snapshot and its
\* transport call, and the next step of the request is its settlement.
C26_NoSuspensionBeforeCall ==
  [][\A c \in connectors, config \in HttpRequestConfigs :
       (c.protocolType = "REST" /\ request(c, config)) =>
         LET ax == AdapterObjects[c.adapterClient].props.axiosInstance
             H == PerCallHeaders(config)
         IN /\ \E r \in BagToSet(inflight') :
                 /\ inflight' = inflight (+) SetToBag({r})
                 /\ r.conn = c
                 /\ r.config = config
                 /\ r.method = "request"
                 /\ r.client = ax
                 /\ r.originalHeaders = headers[ax]
                 /\ \A k \in DOMAIN headers'[ax] \ DOMAIN H :
                      k \in DOMAIN r.originalHeaders
                        /\ headers'[ax][k] = r.originalHeaders[k]
                 /\ \A k \in DOMAIN r.originalHeaders : k \in DOMAIN headers'[ax]
                 /\ \A k \in DOMAIN H : headers'[ax][k] = H[k]
            /\ lastToken' = lastToken
            /\ lastCall' = lastCall
            /\ \A t \in Transports \ {ax} : headers'[t] = headers[t]
            /\ UNCHANGED <<connectorRegistry, connectors, returned>>]_vars

\* C26 happens: after a token was applied, a REST call without per-call
\* headers is in flight next to another call; its snapshot is the overlay of
\* the call issued before it, and the defaults are still that snapshot.
C26_Witness ==
  /\ lastToken["ax1"] = "xyz"
  /\ BagCardinality(inflight) = 2
  /\ \E r \in BagToSet(inflight) :
       /\ r.client = "ax1"
       /\ "headers" \notin DOMAIN r.config
       /\ r.originalHeaders = [A |-> "2", authorization |-> "Basic u"]
       /\ headers["ax1"] = r.originalHeaders

\* C27: the call a GraphQL request issues is the query function of the
\* connector's GraphQL client with one argument of three fields: query, a
\* document (the config's own when it gave a document); variables, the
\* config's variables, undefined when it gave none; context, the object
\* {headers: H} when the config gave per-call headers H and undefined when it
\* gave none.  Neither that step nor the step handling the settled call
\* changes the default headers of any transport.
C27_GraphQLCallArguments ==
  [][/\ \A c \in connectors, config \in GraphQLOperationConfigs :
          (c.protocolType = "GraphQL" /\ request(c, config)) =>
            /\ headers' = headers
            /\ inflight' # inflight =>
                 \E r \in BagToSet(inflight') :
                   /\ inflight' = inflight (+) SetToBag({r})
                   /\ r.method = "query"
                   /\ r.client = AdapterObjects[c.adapterClient].props.apolloClient
                   /\ DOMAIN r.arg = {"query", "variables", "context"}
                   /\ r.arg.query.kind = "Document"
                   /\ config.query.type = "object" => r.arg.query = config.query
                   /\ r.arg.variables =
                        IF "variables" \in DOMAIN config
                        THEN [defined |-> TRUE, value |-> config.variables]
                        ELSE [defined |-> FALSE]
                   /\ r.arg.context =
                        IF "headers" \in DOMAIN config
                        THEN [defined |-> TRUE, value |-> [headers |-> config.headers]]
                        ELSE [defined |-> FALSE]
     /\ \A r \in BagToSet(inflight) :
          ( /\ r.conn.protocolType = "GraphQL"
            /\ lastCall'.cause \in GraphQLOutcomes
            /\ requestSettles(r, lastCall'.cause) )
          => headers' = headers]_vars

\* C27 happens: a GraphQL call with variables {id: "123"} and context
\* {headers: {A: "9"}} and another with neither are in flight, and the
\* transports' defaults are what they were at the start.
C27_Witness ==
  /\ headers = InitialHeaders
  /\ \E r \in BagToSet(inflight) :
       /\ r.method = "query"
       /\ r.arg.variables = [defined |-> TRUE, value |-> [id |-> "123"]]
       /\ r.arg.context = [defined |-> TRUE, value |-> [headers |-> [A |-> "9"]]]
  /\ \E r \in BagToSet(inflight) :
       /\ r.method = "query"
       /\ r.arg.variables = [defined |-> FALSE]
       /\ r.arg.context = [defined |-> FALSE]

\* C28: a step that changes the default headers of a transport is a step of
\* a REST connector holding that transport: applyAuthenticationToken on it,
\* request on it, or the handling of a settled call of a request on it.  So
\* factory calls, getGraphQLClient, requests on GraphQL and Generic
\* connectors and their settlements, and applyAuthenticationToken turned down
\* on a connector that is not REST change no transport's defaults, and an
\* operation on one transport changes no other's.
C28_FrameOfWrites ==
  [][\A t \in Transports :
       headers'[t] # headers[t] =>
         \E c \in connectors :
           /\ c.protocolType = "REST"
           /\ AdapterObjects[c.adapterClient].props.axiosInstance = t
           /\ \/ \E token \in Tokens : applyAuthenticationToken(c, token)
              \/ \E config \in HttpRequestConfigs : request(c, config)
              \/ \E r \in BagToSet(inflight) :
                   /\ r.conn = c
                   /\ lastCall'.cause \in HttpOutcomes
                   /\ requestSettles(r, lastCall'.cause)]_vars

\* C28 happens: a token was applied on the first transport, a request with
\* per-call headers is in flight on the second, a Generic request with
\* per-call headers is in flight too, and each transport's defaults show
\* only what its own connector did.
C28_Witness ==
  /\ headers["ax1"] = [A |-> "1", authorization |-> "Bearer abc"]
  /\ headers["ax2"] = [A |-> "2", authorization |-> "Basic u"]
  /\ lastCall.op = "getGraphQLClient"
  /\ \E r \in BagToSet(inflight) : r.method = "request" /\ r.client = "ax2"
  /\ \E r \in BagToSet(inflight) :
       r.method = "executeRequest" /\ r.config.headers = [A |-> "7"]

\* The per-call headers of the in-flight REST request r are in the defaults
\* hdrs of its transport, with the values r gave them.
OverlayPresent(r, hdrs) ==
  LET H == PerCallHeaders(r.config)
      D == hdrs[AdapterObjects[r.conn.adapterClient].props.axiosInstance]
  IN \A k \in DOMAIN H : k \in DOMAIN D /\ D[k] = H[k]

\* C29 as stated, its last clause: while a REST request stays pending, its
\* header overlay stays in the defaults.
C29_OverlayStaysWhilePending ==
  [][\A r \in BagToSet(inflight) :
       ( /\ r.conn.protocolType = "REST"
         /\ OverlayPresent(r, headers)
         /\ CopiesIn(r, inflight') >= CopiesIn(r, inflight) )
       => OverlayPresent(r, headers')]_vars

\* C29, amended: when every issued call resolves or rejects in the end, every
\* pending request settles in the end; the step that handles a REST request's
\* settled call is the step in which the request resolves or rejects and it
\* leaves the transport's defaults equal to the request's snapshot; a request
\* leaves the pending ones in no other way than by that step, whatever else
\* happens and however long its call takes; and while a REST request stays
\* pending, its header overlay stays in the defaults through every step
\* other than the settlement or the start of another request on the same
\* transport and the application of a token to it.
C29_SettlementFollowsTransport ==
  /\ \A c \in LiveConnectors, config \in AllConfigs :
       Pending(c, config) ~> ~Pending(c, config)
  /\ [][\A r \in BagToSet(inflight) :
          /\ CopiesIn(r, inflight') < CopiesIn(r, inflight) =>
               /\ lastCall'.op = "request"
               /\ lastCall'.target = r.conn
               /\ lastCall'.outcome \in {"resolved", "rejected"}
               /\ lastCall'.cause \in OutcomesFor(r.conn.protocolType)
               /\ requestSettles(r, lastCall'.cause)
               /\ r.conn.protocolType = "REST" =>
                    headers'[AdapterObjects[r.conn.adapterClient].props.axiosInstance]
                      = r.originalHeaders
          /\ ( /\ r.conn.protocolType = "REST"
               /\ OverlayPresent(r, headers)
               /\ ~OverlayPresent(r, headers')
               /\ CopiesIn(r, inflight') >= CopiesIn(r, inflight) )
             => \E c \in connectors :
                  /\ c.protocolType = "REST"
                  /\ AdapterObjects[c.adapterClient].props.axiosInstance
                       = AdapterObjects[r.conn.adapterClient].props.axiosInstance
                  /\ \/ \E q \in BagToSet(inflight) \ {r} :
                          q.conn = c /\ requestSettles(q, lastCall'.cause)
                     \/ \E config \in HttpRequestConfigs : request(c, config)
                     \/ \E token \in Tokens : applyAuthenticationToken(c, token)]_vars

\* C29 happens: a REST request with per-call headers is pending, its overlay
\* is gone from the defaults, and the request that began before it has just
\* settled and restored its own snapshot.
C29_Witness ==
  /\ lastCall.op = "request"
  /\ lastCall.outcome \in {"resolved", "rejected"}
  /\ lastCall.target.protocolType = "REST"
  /\ \E r \in BagToSet(inflight) :
       /\ r.conn = lastCall.target
       /\ "headers" \in DOMAIN r.config
       /\ ~OverlayPresent(r, headers)
       /\ headers["ax1"] = InitialHeaders["ax1"]

\* No REST request is in flight on transport t.
Quiescent(t) == \A r \in BagToSet(inflight) : r.client # t

\* C30 as stated, where no token was ever applied: whenever no REST request
\* is in flight on a transport, its defaults are what they were before any
\* request began.
C30_QuiescentHeadersClean ==
  \A t \in Transports :
    (Quiescent(t) /\ lastToken[t] = NoToken) => headers[t] = InitialHeaders[t]

\* C30, amended: when the settlement of a REST request leaves no REST request
\* in flight on its transport, the defaults of the transport are that
\* request's snapshot, the defaults as they were when it began, whichever of
\* the overlapping requests it is; and where no token was ever applied, every
\* header of the defaults is one the transport was created with or a
\* per-call header of some request, and no header the transport was created
\* with is missing.
C30_QuiescentHeadersAreLastSnapshot ==
  /\ [][\A r \in BagToSet(inflight) :
          ( /\ r.conn.protocolType = "REST"
            /\ lastCall'.cause \in HttpOutcomes
            /\ \A q \in BagToSet(inflight') : q.client # r.client
            /\ requestSettles(r, lastCall'.cause) )
          => headers'[r.client] = r.originalHeaders]_vars
  /\ [](\A t \in Transports :
          lastToken[t] = NoToken =>
            /\ DOMAIN InitialHeaders[t] \subseteq DOMAIN headers[t]
            /\ \A k \in DOMAIN headers[t] :
                 \/ k \in DOMAIN InitialHeaders[t] /\ headers[t][k] = InitialHeaders[t][k]
                 \/ \E config \in HttpRequestConfigs :
                      /\ k \in DOMAIN PerCallHeaders(config)
                      /\ headers[t][k] = PerCallHeaders(config)[k])

\* C30 happens: no token was applied, nothing is in flight, the request
\* that settled last had no per-call headers, and the defaults of the first
\* transport still hold the per-call headers of a request that settled
\* before it.
C30_Witness ==
  /\ inflight = EmptyBag
  /\ lastToken["ax1"] = NoToken
  /\ lastCall.op = "request"
  /\ lastCall.outcome = "resolved"
  /\ AdapterObjects[lastCall.target.adapterClient].props.axiosInstance = "ax1"
  /\ headers["ax1"] = [A |-> "2", authorization |-> "Basic u"]

\* C31 as stated: in every state, the per-call headers of every REST request
\* in flight are in the defaults of its transport.
C31_OverlayLastsWholeCall ==
  \A r \in BagToSet(inflight) :
    r.conn.protocolType = "REST" =>
      \A k \in DOMAIN PerCallHeaders(r.config) :
        /\ k \in DOMAIN headers[r.client]
        /\ headers[r.client][k] = PerCallHeaders(r.config)[k]

\* C31, amended: the per-call headers H of a REST request are in the
\* transport's defaults right after the step that issues its call; when
\* another request on the same transport settles while it is in flight, the
\* defaults become that other request's snapshot, so H is in the defaults
\* afterwards exactly when that snapshot holds H, which it does not when the
\* other request began before H was overlaid.
C31_OverlayUntilOtherRestore ==
  [][/\ \A c \in connectors, config \in HttpRequestConfigs :
          (c.protocolType = "REST" /\ request(c, config)) =>
            \A k \in DOMAIN PerCallHeaders(config) :
              LET ax == AdapterObjects[c.adapterClient].props.axiosInstance
              IN k \in DOMAIN headers'[ax] /\ headers'[ax][k] = config.headers[k]
     /\ \A q \in BagToSet(inflight) :
          ( /\ q.conn.protocolType = "REST"
            /\ lastCall'.cause \in HttpOutcomes
            /\ requestSettles(q, lastCall'.cause) )
          => \A r \in BagToSet(inflight') :
               (r.conn.protocolType = "REST" /\ r.client = q.client) =>
                 LET H == PerCallHeaders(r.config)
                 IN (\A k \in DOMAIN H :
                       k \in DOMAIN headers'[r.client] /\ headers'[r.client][k] = H[k])
                    <=> (\A k \in DOMAIN H :
                           k \in DOMAIN q.originalHeaders /\ q.originalHeaders[k] = H[k])]_vars

\* C31 happens: a request that began first, without per-call headers, has
\* just settled while a request with per-call headers is still in flight on
\* the same transport, and those headers are no longer in its defaults.
C31_Witness ==
  /\ lastCall.op = "request"
  /\ lastCall.cause \in HttpOutcomes
  /\ \E r \in BagToSet(inflight) :
       /\ r.conn = lastCall.target
       /\ "headers" \in DOMAIN r.config
       /\ r.config.headers = [A |-> "2", authorization |-> "Basic u"]
       /\ r.originalHeaders = [A |-> "1"]
       /\ headers[r.client] = [A |-> "1"]

\* C32: a successful factory call whose key no earlier successful call
\* produced stores a connector bound to its adapter under that key; a
\* successful call whose key was produced before returns the stored
\* connector, leaves the registry as it is and binds no connector to its own
\* adapter; no step changes the adapter of a stored connector.  A token
\* applied through a connector changes the defaults of the transport of the
\* adapter the connector is bound to and of no other, and the call of every
\* REST request in flight is on the transport of the adapter its connector
\* is bound to, which is the connector stored under its key.
C32_FirstAdapterWins ==
  [][/\ \A a \in Adapters :
          ( /\ lastCall'.op = "createOrRetrieve"
            /\ lastCall'.adapter = a
            /\ lastCall'.outcome = "returned"
            /\ createOrRetrieve(a) )
          => LET key == AdapterObjects[a].ctorName \o ":" \o DetectProtocol(a)
                 earlier == {p \in returned :
                               AdapterObjects[p[1]].ctorName \o ":" \o DetectProtocol(p[1]) = key}
             IN IF earlier = {}
                THEN /\ key \notin DOMAIN connectorRegistry
                     /\ connectorRegistry'[key].adapterClient = a
                     /\ lastCall'.conn = connectorRegistry'[key]
                ELSE /\ connectorRegistry' = connectorRegistry
                     /\ connectors' = connectors
                     /\ lastCall'.conn = connectorRegistry[key]
                     /\ \A p \in earlier : p[2] = lastCall'.conn
     /\ \A k \in DOMAIN connectorRegistry :
          /\ k \in DOMAIN connectorRegistry'
          /\ connectorRegistry'[k].adapterClient = connectorRegistry[k].adapterClient
     /\ \A c \in connectors :
          ( /\ lastCall'.op = "applyAuthenticationToken"
            /\ lastCall'.target = c
            /\ c.protocolType = "REST"
            /\ applyAuthenticationToken(c, lastCall'.token) )
          => LET ax == AdapterObjects[c.adapterClient].props.axiosInstance
             IN /\ headers'[ax]["authorization"] = "Bearer " \o lastCall'.token
                /\ \A t \in Transports \ {ax} : headers'[t] = headers[t]
     /\ \A r \in BagToSet(inflight') :
          r.conn.protocolType = "REST" =>
            /\ r.client = AdapterObjects[r.conn.adapterClient].props.axiosInstance
            /\ connectorRegistry'[KeyOf(r.conn)] = r.conn]_vars

\* C32 happens: the factory was given adapter 1 and then adapter 2 of the
\* same key and returned the connector on adapter 1 both times; a token was
\* just applied through it and a request through it is in flight, both on
\* adapter 1's transport, and adapter 2's transport is untouched.
C32_Witness ==
  /\ lastCall.op = "applyAuthenticationToken"
  /\ lastCall.outcome = "returned"
  /\ lastCall.target.adapterClient = 1
  /\ <<1, lastCall.target>> \in returned
  /\ <<2, lastCall.target>> \in returned
  /\ \A c \in connectors : c.adapterClient # 2
  /\ headers["ax1"]["authorization"] = "Bearer " \o lastCall.token
  /\ headers["ax2"] = InitialHeaders["ax2"]
  /\ \E r \in BagToSet(inflight) : r.conn = lastCall.target /\ r.client = "ax1"

\* C33: every connector in the registry is stored under the key made of the
\* type name of its adapter, a colon and its protocol kind; that kind is
\* REST, GraphQL or Generic and is the first, in detector order, whose
\* detector accepts the adapter; every connector the factory returned is the
\* one in the registry under its key; and a request that was rejected as of
\* an unsupported protocol was made on a connector the factory never
\* returned.
C33_RegistryConsistent ==
  /\ \A k \in DOMAIN connectorRegistry :
       LET c == connectorRegistry[k]
           a == c.adapterClient
       IN /\ k = AdapterObjects[a].ctorName \o ":" \o c.protocolType
          /\ c.protocolType \in {"REST", "GraphQL", "Generic"}
          /\ c.protocolType = "REST" => HasField(a, "axiosInstance")
          /\ c.protocolType = "GraphQL" =>
               HasField(a, "apolloClient") /\ ~HasField(a, "axiosInstance")
          /\ c.protocolType = "Generic" =>
               /\ HasField(a, "client") /\ HasField(a, "executeRequest")
               /\ ~HasField(a, "apolloClient") /\ ~HasField(a, "axiosInstance")
  /\ \A p \in returned :
       /\ KeyOf(p[2]) \in DOMAIN connectorRegistry
       /\ connectorRegistry[KeyOf(p[2])] = p[2]
  /\ ( /\ lastCall.op = "request"
       /\ lastCall.outcome = "rejected"
       /\ StartsWith(lastCall.error, UnsupportedProtocolPrefix) )
     => \A p \in returned : p[2] # lastCall.target

\* C33 happens: the registry holds a REST connector on the RESTConfig and a
\* GraphQL connector on the GraphQLConfig, the unrecognised adapter was
\* turned down, and a request on a connector the host constructed itself was
\* just rejected as of an unsupported protocol.
C33_Witness ==
  /\ DOMAIN connectorRegistry = {"RESTConfig:REST", "GraphQLConfig:GraphQL"}
  /\ lastCall.op = "request"
  /\ lastCall.outcome = "rejected"
  /\ lastCall.error = "Protocolo não suportado: UnsupportedProtocol"
  /\ lastCall.target \in connectors
  /\ inflight # EmptyBag

\* C34: two adapters the factory returned connectors for, whose type names
\* differ or for which the factory resolved different protocols, were
\* returned different connectors; so the adapters that were returned one
\* connector all have one type name and one protocol, that connector's, and
\* no connector was returned both for a REST and a GraphQL adapter, for a
\* REST and a Generic adapter or for a GraphQL and a Generic adapter.
C34_KeysSeparate ==
  LET detected(a) == IF HasField(a, "axiosInstance") THEN "REST"
                     ELSE IF HasField(a, "apolloClient") THEN "GraphQL"
                     ELSE "Generic"
  IN /\ \A p \in returned, q \in returned :
          ( \/ AdapterObjects[p[1]].ctorName # AdapterObjects[q[1]].ctorName
            \/ detected(p[1]) # detected(q[1]) )
          => p[2] # q[2]
     /\ \A p \in returned :
          /\ p[2].protocolType = detected(p[1])
          /\ AdapterObjects[p[2].adapterClient].ctorName = AdapterObjects[p[1]].ctorName

\* C34 happens: plain-object REST, GraphQL and Generic adapters and a
\* RESTConfig were each returned a connector of their own, while a second
\* plain-object REST adapter was returned the first one's.
C34_Witness ==
  /\ \E c1 \in connectors, c3 \in connectors, c4 \in connectors, c5 \in connectors :
       /\ <<1, c1>> \in returned /\ <<2, c1>> \in returned
       /\ <<3, c3>> \in returned
       /\ <<4, c4>> \in returned
       /\ <<5, c5>> \in returned
       /\ Cardinality({c1, c3, c4, c5}) = 4
  /\ lastCall.op = "createOrRetrieve"
  /\ lastCall.outcome = "returned"

====
